---- MODULE Spec2Model ----
(***************************************************************************)
(* Model of the hive worker orchestration core: the worker lifecycle       *)
(* manager and worktree provisioner (workers.ts, the clean command of     *)
(* cli.ts), the status store and aggregator (workers.ts, dashboard hooks  *)
(* and cards), the log tailer (useWorkerLogs) and the modal key           *)
(* dispatcher (embedded/keybindings.ts).                                   *)
(*                                                                         *)
(* The session host (tmux), git and the filesystem are the environment:    *)
(* every call to them may fail, and which calls fail is an input of the    *)
(* operation that makes them.                                              *)
(***************************************************************************)
EXTENDS Integers, Sequences, FiniteSets, TLC

\* ------------------------------------------------------------------------
\* Program constants and bounds
\* ------------------------------------------------------------------------

\* workers.ts:33
WORKER_COUNT == 4

\* number of operations explored from the initial state, per specification
MaxOps == 2
MaxStatusOps == 4
MaxKeyOps == 4
MaxTreeOps == 2
MaxCardOps == 2
MaxLogOps == 3
MaxTailOps == 3
MaxIdleOps == 3
MaxConfOps == 2
MaxThemeOps == 1
MaxLayoutOps == 2
MaxDashOps == 4
MaxStaleOps == 3
MaxRebuildOps == 3
MaxUpOps == 3

\* longest project name drawn for the session names, in characters, before
\* a worker suffix is put after it
MaxNameLen == 2

\* polls of one status file in the reader's specification
MaxReadPolls == 1

\* longest status file text read in the reader's specification, in tokens
MaxTextLen == 5

Slots == 1..WORKER_COUNT

\* worker ids restartWorker may be called with (it checks the range itself)
WorkerIds == 0..(WORKER_COUNT + 1)

\* the session-host commands issued by the lifecycle manager
HostCmds == {"has-session", "new-session", "pipe-pane", "set-option",
             "send-keys", "kill-session"}

\* the commands that only query the host or wait
QueryCmds == {"has-session", "sleep"}

VARIABLES
  sess,        \* per slot: the host's session of that worker's name
  baseExists,  \* the worktree base directory exists
  worktree,    \* per slot: the worktree directory exists
  logs,        \* per slot: the log file, whether it exists and its lines
  statusFile,  \* per slot: content of .hive/status/worker-N.json
  snapshot,    \* the dashboard's workers state (useWorkerStatus)
  last,        \* the last operation: its inputs, steps and result
  ops,         \* number of operations so far
  keyTable,    \* the client's current key table, "root" | "hive"
  statusRight, \* the status bar of the embedded session, "normal" | "hive"
  client,      \* the session the client shows: 0 = embedded, 1..4 = worker
  embedded,    \* what exists of the embedded session and its bindings
  lastKey,     \* the last key dispatched and what it did
  tail,        \* per slot: the log tailer of that worker's card
  call,        \* the last call of a pure function: arguments and results
  config,      \* the global and the local config.json, as texts
  currentTheme, \* the theme module's current theme, "dark" | "light"
  confOp,      \* the last config or theme operation and its result
  dash,        \* the dashboard process: mounted, its timers, its attaches
  layout       \* the embedded session on the host

vars == <<sess, baseExists, worktree, logs, statusFile, snapshot, last, ops,
          keyTable, statusRight, client, embedded, lastKey, tail, call,
          config, currentTheme, confOp, dash, layout>>

lifeVars == <<sess, baseExists, worktree, logs>>
keyVars == <<keyTable, statusRight, client, embedded, lastKey>>
confVars == <<config, currentTheme, confOp>>
sideVars == <<config, currentTheme, confOp, dash, layout>>

\* ------------------------------------------------------------------------
\* Session registry (workers.ts)
\* ------------------------------------------------------------------------

\* a session: its working directory, whether its output is piped to the
\* log, its mouse option, whether the agent was launched in it, and whether
\* /exit was typed into it
NoSession == [exists |-> FALSE, cwd |-> "-", piped |-> FALSE,
              mouse |-> FALSE, agent |-> FALSE, exitSent |-> FALSE]

\* a log file
NoLog == [exists |-> FALSE, lines |-> <<>>]
EmptyLog == [exists |-> TRUE, lines |-> <<>>]

\* strings whose characters matter are sequences of characters
Hive == <<"h", "i", "v", "e", "-">>
WorkerSep == <<"-", "w", "o", "r", "k", "e", "r", "-">>
DigitChar == <<"0", "1", "2", "3", "4", "5", "6", "7", "8", "9">>

\* a number in a template literal: its decimal digits
RECURSIVE NumberToString(_)
NumberToString(n) ==
  IF n < 10 THEN <<DigitChar[n + 1]>>
  ELSE NumberToString(n \div 10) \o <<DigitChar[(n % 10) + 1]>>

\* a session name that leaves the project out
getWorkerSessionNameNoProject(projectName, workerId) ==
  Hive \o Tail(WorkerSep) \o NumberToString(workerId)

\* getWorkerSessionName: `hive-${projectName}-worker-${workerId}`
getWorkerSessionName(projectName, workerId) ==
  Hive \o projectName \o WorkerSep \o NumberToString(workerId)

\* an embedded session named like the project's first worker
getEmbeddedSessionNameWorker(projectName) ==
  getWorkerSessionName(projectName, 1)

\* getEmbeddedSessionName: `hivecode-${projectName}`
getEmbeddedSessionName(projectName) ==
  <<"h", "i", "v", "e", "c", "o", "d", "e", "-">> \o projectName

\* the lifecycle manager's view of the world, passed through the operations
World == [sess |-> sess, base |-> baseExists, wt |-> worktree, logs |-> logs]

\* sessionExists whose catch answers true
sessionExistsFailOpen(w, slot, F) ==
  IF "has-session" \in F THEN TRUE ELSE w.sess[slot].exists

\* sessionExists: tmux has-session; any error counts as "does not exist".
\* F is the set of host commands that fail during the operation.
sessionExists(w, slot, F) ==
  IF "has-session" \in F THEN FALSE ELSE w.sess[slot].exists


\* ------------------------------------------------------------------------
\* Worktree provisioner (workers.ts)
\* ------------------------------------------------------------------------

\* createWorktree without the early return for an existing worktree
createWorktreeNoReuse(w, slot, gitOk, fs) ==
  LET needMkdir == ~w.base
      pre == IF needMkdir THEN <<"mkdir-base">> ELSE <<>>
      w1 == [w EXCEPT !.base = TRUE]
      there == w1.wt[slot] \/ gitOk
  IN  IF needMkdir /\ fs = "mkdir"
        THEN [thrown |-> TRUE, path |-> "-", w |-> w, steps |-> pre]
      ELSE [thrown |-> FALSE,
            path |-> IF there THEN "worktree" ELSE "root",
            w |-> [w1 EXCEPT !.wt[slot] = there],
            steps |-> pre \o <<"worktree-add">>]

\* createWorktree: mkdir the base if needed (may throw), reuse an existing
\* worktree, else run git worktree add (gitOk: the directory got created)
\* and fall back to the project root.  fs names the filesystem call that
\* fails during the operation: "ok" | "mkdir" | "write".
createWorktree(w, slot, gitOk, fs) ==
  LET needMkdir == ~w.base
      pre == IF needMkdir THEN <<"mkdir-base">> ELSE <<>>
      w1 == [w EXCEPT !.base = TRUE]
  IN  IF needMkdir /\ fs = "mkdir"
        THEN [thrown |-> TRUE, path |-> "-", w |-> w, steps |-> pre]
      ELSE IF w1.wt[slot]
        THEN [thrown |-> FALSE, path |-> "worktree", w |-> w1, steps |-> pre]
      ELSE [thrown |-> FALSE,
            path |-> IF gitOk THEN "worktree" ELSE "root",
            w |-> [w1 EXCEPT !.wt[slot] = gitOk],
            steps |-> pre \o <<"worktree-add">>]

\* hivecode clean: for each slot whose worktree exists, git worktree remove
\* --force, and rm -rf when that fails; an rm -rf that fails ends the loop.
\* out gives, per slot, how the removal goes: "removed" | "forced" | "failed"
RECURSIVE cleanLoop(_, _, _)
cleanLoop(w, i, out) ==
  IF i > 4 THEN [w |-> w, ret |-> "void", steps |-> <<>>]
  ELSE IF ~w.wt[i] THEN cleanLoop(w, i + 1, out)
  ELSE IF out[i] = "failed"
    THEN [w |-> w, ret |-> "void",
          steps |-> <<"worktree-remove", "rm-rf">>]
  ELSE LET rest == cleanLoop([w EXCEPT !.wt[i] = FALSE], i + 1, out)
       IN  [w |-> rest.w, ret |-> rest.ret,
            steps |-> (IF out[i] = "removed"
                         THEN <<"worktree-remove">>
                         ELSE <<"worktree-remove", "rm-rf">>) \o rest.steps]

clean(w, out) ==
  IF ~w.base THEN [w |-> w, ret |-> "void", steps |-> <<>>]
  ELSE cleanLoop(w, 1, out)

\* ------------------------------------------------------------------------
\* Worker lifecycle manager (workers.ts)
\* ------------------------------------------------------------------------

\* the try block with a catch that kills the session it created
startSessionUndo(w, slot, F, path) ==
  LET s4 == [exists |-> TRUE, cwd |-> path, piped |-> TRUE,
             mouse |-> TRUE, agent |-> TRUE, exitSent |-> FALSE]
  IN  IF "new-session" \in F \/ w.sess[slot].exists
        THEN [w |-> w, ret |-> "false", steps |-> <<"new-session">>]
      ELSE IF F \cap {"pipe-pane", "set-option", "send-keys"} # {}
        THEN [w |-> w, ret |-> "false",
              steps |-> <<"new-session", "pipe-pane", "kill-session">>]
      ELSE [w |-> [w EXCEPT !.sess[slot] = s4], ret |-> "true",
            steps |-> <<"new-session", "pipe-pane", "set-option",
                        "send-keys">>]

\* the try block of startWorker: new-session, pipe-pane, set-option,
\* send-keys; the first command that fails ends the block with false and
\* nothing is undone
\* the try block of startWorker attaching the output capture last
startSessionLatePipe(w, slot, F, path) ==
  LET s1 == [NoSession EXCEPT !.exists = TRUE, !.cwd = path]
      s2 == [s1 EXCEPT !.mouse = TRUE]
      s3 == [s2 EXCEPT !.agent = TRUE]
      s4 == [s3 EXCEPT !.piped = TRUE]
      put(s) == [w EXCEPT !.sess[slot] = s]
  IN  IF "new-session" \in F \/ w.sess[slot].exists
        THEN [w |-> w, ret |-> "false", steps |-> <<"new-session">>]
      ELSE IF "set-option" \in F
        THEN [w |-> put(s1), ret |-> "false",
              steps |-> <<"new-session", "set-option">>]
      ELSE IF "send-keys" \in F
        THEN [w |-> put(s2), ret |-> "false",
              steps |-> <<"new-session", "set-option", "send-keys">>]
      ELSE IF "pipe-pane" \in F
        THEN [w |-> put(s3), ret |-> "false",
              steps |-> <<"new-session", "set-option", "send-keys",
                          "pipe-pane">>]
      ELSE [w |-> put(s4), ret |-> "true",
            steps |-> <<"new-session", "set-option", "send-keys",
                        "pipe-pane">>]

startSession(w, slot, F, path) ==
  LET s1 == [NoSession EXCEPT !.exists = TRUE, !.cwd = path]
      s2 == [s1 EXCEPT !.piped = TRUE]
      s3 == [s2 EXCEPT !.mouse = TRUE]
      s4 == [s3 EXCEPT !.agent = TRUE]
      put(s) == [w EXCEPT !.sess[slot] = s]
  IN  IF "new-session" \in F \/ w.sess[slot].exists
        THEN [w |-> w, ret |-> "false", steps |-> <<"new-session">>]
      ELSE IF "pipe-pane" \in F
        THEN [w |-> put(s1), ret |-> "false",
              steps |-> <<"new-session", "pipe-pane">>]
      ELSE IF "set-option" \in F
        THEN [w |-> put(s2), ret |-> "false",
              steps |-> <<"new-session", "pipe-pane", "set-option">>]
      ELSE IF "send-keys" \in F
        THEN [w |-> put(s3), ret |-> "false",
              steps |-> <<"new-session", "pipe-pane", "set-option",
                          "send-keys">>]
      ELSE [w |-> put(s4), ret |-> "true",
            steps |-> <<"new-session", "pipe-pane", "set-option",
                        "send-keys">>]

\* startWorker without its already-running check
startWorkerNoSkip(w, slot, F, gitOk, fs) ==
  LET cw == createWorktree(w, slot, gitOk, fs)
  IN  IF cw.thrown
        THEN [w |-> cw.w, ret |-> "throw",
              steps |-> <<"has-session">> \o cw.steps]
      ELSE IF fs = "write"
        THEN [w |-> cw.w, ret |-> "throw",
              steps |-> <<"has-session">> \o cw.steps \o <<"log-reset">>]
      ELSE
        LET w1 == [cw.w EXCEPT !.logs[slot] = EmptyLog]
            t == startSession(w1, slot, F, cw.path)
        IN  [w |-> t.w, ret |-> t.ret,
             steps |-> <<"has-session">> \o cw.steps \o <<"log-reset">>
                       \o t.steps]

\* startWorker: skip if the session exists; else worktree, log reset
\* (writeFileSync, outside the try), then the try block
\* startWorker emptying the log ahead of the already-running check
startWorkerResetsFirst(w, slot, F, gitOk, fs) ==
  LET w0 == [w EXCEPT !.logs[slot] = EmptyLog]
  IN  IF sessionExists(w, slot, F)
        THEN [w |-> w0, ret |-> "true",
              steps |-> <<"log-reset", "has-session">>]
      ELSE
        LET cw == createWorktree(w0, slot, gitOk, fs)
            t == startSession(cw.w, slot, F, cw.path)
        IN  IF cw.thrown \/ fs = "write"
              THEN [w |-> cw.w, ret |-> "throw",
                    steps |-> <<"has-session">> \o cw.steps]
            ELSE [w |-> t.w, ret |-> t.ret,
                  steps |-> <<"has-session">> \o cw.steps
                            \o <<"log-reset">> \o t.steps]

startWorker(w, slot, F, gitOk, fs) ==
  IF sessionExists(w, slot, F)
    THEN [w |-> w, ret |-> "true", steps |-> <<"has-session">>]
  ELSE
    LET cw == createWorktree(w, slot, gitOk, fs)
    IN  IF cw.thrown
          THEN [w |-> cw.w, ret |-> "throw",
                steps |-> <<"has-session">> \o cw.steps]
        ELSE IF fs = "write"
          THEN [w |-> cw.w, ret |-> "throw",
                steps |-> <<"has-session">> \o cw.steps \o <<"log-reset">>]
        ELSE
          LET w1 == [cw.w EXCEPT !.logs[slot] = EmptyLog]
              t == startSession(w1, slot, F, cw.path)
          IN  [w |-> t.w, ret |-> t.ret,
               steps |-> <<"has-session">> \o cw.steps \o <<"log-reset">>
                         \o t.steps]

\* stopWorker that ends the session instead of typing /exit into it
stopWorkerKills(w, slot, F) ==
  IF ~sessionExists(w, slot, F)
    THEN [w |-> w, ret |-> "false", steps |-> <<"has-session">>]
  ELSE IF "send-keys" \in F
    THEN [w |-> w, ret |-> "false",
          steps |-> <<"has-session", "send-keys">>]
  ELSE [w |-> [w EXCEPT !.sess[slot] = NoSession], ret |-> "true",
        steps |-> <<"has-session", "send-keys">>]

\* stopWorker: type /exit into an existing session and return; the session
\* stays
stopWorker(w, slot, F) ==
  IF ~sessionExists(w, slot, F)
    THEN [w |-> w, ret |-> "false", steps |-> <<"has-session">>]
  ELSE IF "send-keys" \in F
    THEN [w |-> w, ret |-> "false",
          steps |-> <<"has-session", "send-keys">>]
  ELSE [w |-> [w EXCEPT !.sess[slot].exitSent = TRUE], ret |-> "true",
        steps |-> <<"has-session", "send-keys">>]

\* killWorker that ends the host's server, and every session with it
killWorkerServer(w, slot, F) ==
  IF ~sessionExists(w, slot, F)
    THEN [w |-> w, ret |-> "true", steps |-> <<"has-session">>]
  ELSE IF "kill-session" \in F
    THEN [w |-> w, ret |-> "false",
          steps |-> <<"has-session", "kill-session">>]
  ELSE [w |-> [w EXCEPT !.sess = [j \in Slots |-> NoSession]],
        ret |-> "true", steps |-> <<"has-session", "kill-session">>]

\* killWorker without its existence check: kill-session fails on a name
\* the host does not have
killWorkerNoCheck(w, slot, F) ==
  IF "kill-session" \in F \/ ~w.sess[slot].exists
    THEN [w |-> w, ret |-> "false", steps |-> <<"kill-session">>]
  ELSE [w |-> [w EXCEPT !.sess[slot] = NoSession], ret |-> "true",
        steps |-> <<"kill-session">>]

\* killWorker that removes the worker's worktree with the session
killWorkerPrunes(w, slot, F) ==
  IF ~sessionExists(w, slot, F)
    THEN [w |-> w, ret |-> "true", steps |-> <<"has-session">>]
  ELSE IF "kill-session" \in F
    THEN [w |-> w, ret |-> "false",
          steps |-> <<"has-session", "kill-session">>]
  ELSE [w |-> [w EXCEPT !.sess[slot] = NoSession, !.wt[slot] = FALSE],
        ret |-> "true", steps |-> <<"has-session", "kill-session">>]

\* killWorker: kill-session on an existing session
killWorker(w, slot, F) ==
  IF ~sessionExists(w, slot, F)
    THEN [w |-> w, ret |-> "true", steps |-> <<"has-session">>]
  ELSE IF "kill-session" \in F
    THEN [w |-> w, ret |-> "false",
          steps |-> <<"has-session", "kill-session">>]
  ELSE [w |-> [w EXCEPT !.sess[slot] = NoSession], ret |-> "true",
        steps |-> <<"has-session", "kill-session">>]

\* restartWorker that kills the session by name itself instead of through
\* killWorker
restartWorkerForceKill(w, workerId, F, gitOk, fs) ==
  IF workerId < 1 \/ workerId > WORKER_COUNT
    THEN [w |-> w, ret |-> "void", steps |-> <<>>]
  ELSE
    LET k == killWorkerNoCheck(w, workerId, F)
        s == startWorker(k.w, workerId, F, gitOk, fs)
    IN  [w |-> s.w,
         ret |-> IF s.ret = "throw" THEN "throw" ELSE "void",
         steps |-> k.steps \o <<"sleep">> \o s.steps]

\* restartWorker: range check, killWorker, sleep 1, startWorker; both
\* results are dropped
restartWorker(w, workerId, F, gitOk, fs) ==
  IF workerId < 1 \/ workerId > WORKER_COUNT
    THEN [w |-> w, ret |-> "void", steps |-> <<>>]
  ELSE
    LET k == killWorker(w, workerId, F)
        s == startWorker(k.w, workerId, F, gitOk, fs)
    IN  [w |-> s.w,
         ret |-> IF s.ret = "throw" THEN "throw" ELSE "void",
         steps |-> k.steps \o <<"sleep">> \o s.steps]

\* the worker loop of createEmbeddedLayout: startWorker(i) for i = 1 ..
\* workerCount, results dropped; a startWorker that throws ends the loop
RECURSIVE startWorkersLoop(_, _, _, _, _, _)
RECURSIVE startWorkersFrom(_, _, _, _, _, _)
startWorkersFrom(r, i, workerCount, F, gitOk, fs) ==
  IF r.ret = "throw"
    THEN [w |-> r.w, ret |-> "throw", steps |-> r.steps]
  ELSE LET rest == startWorkersLoop(r.w, i + 1, workerCount, F, gitOk, fs)
       IN  [w |-> rest.w, ret |-> rest.ret,
            steps |-> r.steps \o rest.steps]

startWorkersLoop(w, i, workerCount, F, gitOk, fs) ==
  IF i > workerCount THEN [w |-> w, ret |-> "void", steps |-> <<>>]
  ELSE startWorkersFrom(startWorker(w, i, F, gitOk, fs), i, workerCount,
                        F, gitOk, fs)

\* how many of the startWorker calls returned true
Started(rets) == Cardinality({k \in 1..Len(rets) : rets[k] = "true"})

\* a startWorker call that returned, ahead of the rest of the loop
Returned(r, rest) ==
  [w |-> rest.w, ret |-> rest.ret, steps |-> r.steps \o rest.steps,
   rets |-> <<r.ret>> \o rest.rets]

\* the loop of startAllWorkers: for i = 1 .. WORKER_COUNT, if
\* (startWorker(i)) started++; a startWorker that throws ends the loop.
\* rets are the results of the calls that returned.
RECURSIVE startAllLoop(_, _, _, _, _)
RECURSIVE startAllFrom(_, _, _, _, _)
startAllFrom(r, i, F, gitOk, fs) ==
  IF r.ret = "throw"
    THEN [w |-> r.w, ret |-> "throw", steps |-> r.steps, rets |-> <<>>]
  ELSE Returned(r, startAllLoop(r.w, i + 1, F, gitOk, fs))

startAllLoop(w, i, F, gitOk, fs) ==
  IF i > WORKER_COUNT
    THEN [w |-> w, ret |-> "void", steps |-> <<>>, rets |-> <<>>]
  ELSE startAllFrom(startWorker(w, i, F, gitOk, fs), i, F, gitOk, fs)

\* the result of startAllWorkers: started is the count it prints
AllStarted(r) ==
  [w |-> r.w, ret |-> r.ret, steps |-> <<"mkdir">> \o r.steps,
   rets |-> r.rets, started |-> Started(r.rets)]

\* startAllWorkers: every slot in turn, whatever the earlier ones returned
startAllWorkers(w, F, gitOk, fs) ==
  AllStarted(startAllLoop(w, 1, F, gitOk, fs))

\* Math.min(options.workerCount ?? 4, 4)
LayoutWorkerCount(requested) == IF requested < 4 THEN requested ELSE 4

\* ------------------------------------------------------------------------
\* Layout composer (embedded/layout.ts) and its launcher (embedded/index.ts)
\* ------------------------------------------------------------------------

\* the tmux commands createEmbeddedLayout runs on the embedded session
\* outside any try block, and has-session inside one
LayoutCmds == {"has-session", "kill-session", "new-session", "split-window",
               "select-pane", "send-keys"}

\* no embedded session on the host
NoLayout == [exists |-> FALSE, born |-> 0, cwd |-> "-", styled |-> FALSE,
             split |-> 0, dashboard |-> FALSE, bound |-> FALSE,
             queen |-> FALSE, clock |-> 0]

\* the embedded session as createEmbeddedLayout leaves it with its
\* default options: split 60/40, dashboard and lead process launched
BuiltLayout == [exists |-> TRUE, born |-> 0, cwd |-> "root",
                styled |-> TRUE, split |-> 40, dashboard |-> TRUE,
                bound |-> TRUE, queen |-> TRUE, clock |-> 0]

\* ensureHiveInitialized(config, true): creates .hive and its hooks
ensureHiveInitialized(w) == w

\* the options of createEmbeddedLayout, and the answers of its
\* environment
LayoutOptions(workerCount, queenWidthPercent, showWorkers) ==
  [workerCount |-> workerCount, queenWidthPercent |-> queenWidthPercent,
   showWorkers |-> showWorkers]
HostEnv(FL, F, gitOk, fs) == [FL |-> FL, F |-> F, gitOk |-> gitOk, fs |-> fs]

\* embeddedSessionExists: a failing has-session counts as no session
embeddedSessionExists(lay, FL) ==
  IF "has-session" \in FL THEN FALSE ELSE lay.exists

\* the embedded session right after new-session -d -c projectRoot
NewLayout(now) ==
  [exists |-> TRUE, born |-> now, cwd |-> "root", styled |-> FALSE,
   split |-> 0, dashboard |-> FALSE, bound |-> FALSE, queen |-> FALSE,
   clock |-> 0]

\* the dashboard part of createEmbeddedLayout: split, name the panes,
\* launch the dashboard
splitForDashboard(lay, queenWidth, showWorkers, FL) ==
  IF ~showWorkers THEN [lay |-> lay, thrown |-> FALSE, steps |-> <<>>]
  ELSE IF "split-window" \in FL
    THEN [lay |-> lay, thrown |-> TRUE, steps |-> <<"split-window">>]
  ELSE
    LET l1 == [lay EXCEPT !.split = 100 - queenWidth]
    IN  IF "select-pane" \in FL
          THEN [lay |-> l1, thrown |-> TRUE,
                steps |-> <<"split-window", "select-pane">>]
        ELSE IF "send-keys" \in FL
          THEN [lay |-> l1, thrown |-> TRUE,
                steps |-> <<"split-window", "select-pane", "select-pane",
                            "send-keys">>]
        ELSE [lay |-> [l1 EXCEPT !.dashboard = TRUE], thrown |-> FALSE,
              steps |-> <<"split-window", "select-pane", "select-pane",
                          "send-keys">>]

\* createEmbeddedLayout that keeps a session it finds
createEmbeddedLayoutReuse(w, lay, options, env, now) ==
  LET workerCount == options.workerCount
      queenWidth == options.queenWidthPercent
      showWorkers == options.showWorkers
      FL == env.FL
      F == env.F
      gitOk == env.gitOk
      fs == env.fs
      found == embeddedSessionExists(lay, FL)
      l2 == IF found THEN lay ELSE NewLayout(now)
      l3 == [l2 EXCEPT !.styled = TRUE]
      ws == startWorkersLoop(ensureHiveInitialized(w), 1,
                             LayoutWorkerCount(workerCount), F, gitOk, fs)
      sp == splitForDashboard(l3, queenWidth, showWorkers, FL)
      l5 == [sp.lay EXCEPT !.bound = TRUE]
      head == <<"init", "has-session">>
  IN  IF ~found /\ ("new-session" \in FL \/ lay.exists)
        THEN [w |-> w, lay |-> lay, ret |-> "throw",
              steps |-> head \o <<"new-session">>]
      ELSE IF ws.ret = "throw"
        THEN [w |-> ws.w, lay |-> l3, ret |-> "throw",
              steps |-> head \o <<"configure">> \o ws.steps]
      ELSE IF sp.thrown
        THEN [w |-> ws.w, lay |-> sp.lay, ret |-> "throw",
              steps |-> head \o <<"configure">> \o ws.steps
                        \o <<"sleep">> \o sp.steps]
      ELSE [w |-> ws.w, lay |-> [l5 EXCEPT !.queen = TRUE],
            ret |-> "name",
            steps |-> head \o <<"configure">> \o ws.steps \o <<"sleep">>
                      \o sp.steps \o <<"bind-key", "send-keys",
                                        "select-pane">>]

\* createEmbeddedLayout: initialise, kill the session if there is one,
\* create it, configure it, start the workers, split for the dashboard,
\* bind the keys, launch the lead process.  A failing command outside a
\* try block throws and ends the call where it stands.  The host, git
\* and the filesystem answer as env says: FL the failing commands on the
\* embedded session, F those on worker sessions.
createEmbeddedLayout(w, lay, options, env, now) ==
  LET workerCount == options.workerCount
      queenWidth == options.queenWidthPercent
      showWorkers == options.showWorkers
      FL == env.FL
      F == env.F
      gitOk == env.gitOk
      fs == env.fs
      found == embeddedSessionExists(lay, FL)
      head == <<"init", "has-session">> \o
              (IF found THEN <<"kill-session">> ELSE <<>>)
      l1 == IF found THEN NoLayout ELSE lay
      l3 == [NewLayout(now) EXCEPT !.styled = TRUE]
      ws == startWorkersLoop(ensureHiveInitialized(w), 1,
                             LayoutWorkerCount(workerCount), F, gitOk, fs)
      sp == splitForDashboard(l3, queenWidth, showWorkers, FL)
      l5 == [sp.lay EXCEPT !.bound = TRUE]
  IN  IF found /\ "kill-session" \in FL
        THEN [w |-> w, lay |-> lay, ret |-> "throw", steps |-> head]
      ELSE IF "new-session" \in FL \/ l1.exists
        THEN [w |-> w, lay |-> l1, ret |-> "throw",
              steps |-> head \o <<"new-session">>]
      ELSE IF ws.ret = "throw"
        THEN [w |-> ws.w, lay |-> l3, ret |-> "throw",
              steps |-> head \o <<"new-session", "configure">>
                        \o ws.steps]
      ELSE IF sp.thrown
        THEN [w |-> ws.w, lay |-> sp.lay, ret |-> "throw",
              steps |-> head \o <<"new-session", "configure">>
                        \o ws.steps \o <<"sleep">> \o sp.steps]
      ELSE IF "send-keys" \in FL
        THEN [w |-> ws.w, lay |-> l5, ret |-> "throw",
              steps |-> head \o <<"new-session", "configure">>
                        \o ws.steps \o <<"sleep">> \o sp.steps
                        \o <<"bind-key", "send-keys">>]
      ELSE IF "select-pane" \in FL
        THEN [w |-> ws.w, lay |-> [l5 EXCEPT !.queen = TRUE],
              ret |-> "throw",
              steps |-> head \o <<"new-session", "configure">>
                        \o ws.steps \o <<"sleep">> \o sp.steps
                        \o <<"bind-key", "send-keys", "select-pane">>]
      ELSE [w |-> ws.w, lay |-> [l5 EXCEPT !.queen = TRUE],
            ret |-> "name",
            steps |-> head \o <<"new-session", "configure">>
                      \o ws.steps \o <<"sleep">> \o sp.steps
                      \o <<"bind-key", "send-keys", "select-pane">>]

\* ------------------------------------------------------------------------
\* Status store (workers.ts): status documents as token sequences
\* ------------------------------------------------------------------------

\* file contents that are not text
Missing == <<"<missing>">>
Unreadable == <<"<unreadable>">>

\* JSON string tokens and the JavaScript strings they denote
StrContent ==
  ("\"status\"" :> "status") @@ ("\"branch\"" :> "branch") @@
  ("\"coding\"" :> "coding") @@ ("\"idle\"" :> "idle") @@
  ("\"main\"" :> "main") @@ ("\"percent\"" :> "percent") @@
  ("\"theme\"" :> "theme") @@ ("\"light\"" :> "light") @@
  ("\"dark\"" :> "dark") @@ ("\"auto\"" :> "auto")
StrToks == DOMAIN StrContent

\* JSON number tokens and their values
NumValue == ("0" :> 0) @@ ("50" :> 50) @@ ("150" :> 150) @@ ("-5" :> -5)
NumToks == DOMAIN NumValue
WordToks == {"null", "true", "false"}
ScalarToks == StrToks \cup NumToks \cup WordToks

\* JavaScript values: scalars carry their text in v, objects their fields
JSScalar(t, v) == [t |-> t, v |-> v]
JSUndefined == JSScalar("undefined", "-")
NoFields == [status |-> JSUndefined, branch |-> JSUndefined,
             percent |-> JSUndefined, theme |-> JSUndefined]
JSValue(t, v, fields) == [t |-> t, v |-> v, fields |-> fields]
Undefined == JSValue("undefined", "-", NoFields)
ParseError == JSValue("SyntaxError", "-", NoFields)

ScalarOf(tok) ==
  IF tok \in StrToks THEN JSScalar("string", StrContent[tok])
  ELSE IF tok \in NumToks THEN JSScalar("number", tok)
  ELSE IF tok = "null" THEN JSScalar("null", "-")
  ELSE JSScalar("boolean", tok)

\* the members of an object: key : value , key : value ...
MembersOk(m) ==
  \/ Len(m) = 0
  \/ /\ Len(m) % 4 = 3
     /\ \A i \in 1..Len(m) :
          /\ (i % 4 = 1 => m[i] \in StrToks)
          /\ (i % 4 = 2 => m[i] = ":")
          /\ (i % 4 = 3 => m[i] \in ScalarToks)
          /\ (i % 4 = 0 => m[i] = ",")

\* the value of a key: the last member of that name wins
Member(m, key) ==
  LET at == {i \in 1..Len(m) : i % 4 = 1 /\ StrContent[m[i]] = key}
  IN  IF at = {} THEN JSUndefined
      ELSE ScalarOf(m[(CHOOSE i \in at : \A j \in at : j <= i) + 2])

\* JSON.parse of a text: a scalar, or a flat object; anything else (the
\* empty text, a text cut short) is a SyntaxError
JSONparse(text) ==
  IF Len(text) = 1 /\ text[1] \in ScalarToks
    THEN LET sc == ScalarOf(text[1]) IN JSValue(sc.t, sc.v, NoFields)
  ELSE IF Len(text) >= 2 /\ text[1] = "{" /\ text[Len(text)] = "}"
          /\ MembersOk(SubSeq(text, 2, Len(text) - 1))
    THEN LET m == SubSeq(text, 2, Len(text) - 1)
         IN  JSValue("object", "-",
                     [status |-> Member(m, "status"),
                      branch |-> Member(m, "branch"),
                      percent |-> Member(m, "percent"),
                      theme |-> Member(m, "theme")])
  ELSE ParseError

\* readWorkerStatus without its try/catch
readWorkerStatusNoCatch(files, slot) ==
  IF files[slot] = Missing THEN Undefined
  ELSE IF files[slot] = Unreadable THEN ParseError
  ELSE JSONparse(files[slot])

\* readWorkerStatus: undefined when the file is missing, and when reading
\* or parsing throws
readWorkerStatus(files, slot) ==
  IF files[slot] = Missing THEN Undefined
  ELSE IF files[slot] = Unreadable THEN Undefined
  ELSE LET v == JSONparse(files[slot])
       IN  IF v = ParseError THEN Undefined ELSE v

\* getWorkersInfo with a loop that stops one slot short
getWorkersInfoShort(w, files, Q) ==
  [i \in 1..(WORKER_COUNT - 1) |->
     [id |-> i,
      running |-> sessionExists(w, i, IF i \in Q THEN {"has-session"} ELSE {}),
      status |-> readWorkerStatus(files, i)]]

\* getWorkersInfo reading the first slot's status file for every slot
getWorkersInfoFirstFile(w, files, Q) ==
  [i \in 1..WORKER_COUNT |->
     [id |-> i,
      running |-> sessionExists(w, i, IF i \in Q THEN {"has-session"} ELSE {}),
      status |-> readWorkerStatus(files, 1)]]

\* getWorkersInfo: one entry per slot, in slot order.  Q is the set of
\* slots whose has-session query fails.
getWorkersInfo(w, files, Q) ==
  [i \in 1..WORKER_COUNT |->
     [id |-> i,
      running |-> sessionExists(w, i, IF i \in Q THEN {"has-session"} ELSE {}),
      status |-> readWorkerStatus(files, i)]]

\* ------------------------------------------------------------------------
\* Presentation (StatusBar.tsx WorkerCard, workers.ts listWorkers)
\* ------------------------------------------------------------------------

\* JavaScript truthiness, as used by ||
Truthy(x) ==
  ~ \/ x.t \in {"undefined", "null"}
    \/ (x.t = "string" /\ x.v = "")
    \/ (x.t = "number" /\ x.v = "0")
    \/ (x.t = "boolean" /\ x.v = "false")

\* worker.status?.status
StatusField(worker) == worker.status.fields.status

STATUS_ICONS == {"idle", "coding", "testing", "reviewing",
                 "ready_for_review", "approved", "unknown"}

\* WorkerCard: the status label and icon of the header, and the body; no
\* element of the card shows status.percent
WorkerCard(worker) ==
  LET f == StatusField(worker)
      status == IF Truthy(f) THEN f
                ELSE JSScalar("string",
                              IF worker.running THEN "idle" ELSE "stopped")
      f2 == worker.status.fields.branch
  IN  [label |-> status,
       icon |-> IF status.t = "string" /\ status.v \in STATUS_ICONS
                  THEN status.v ELSE "unknown",
       branch |-> IF Truthy(f2) THEN f2 ELSE JSScalar("string", "-"),
       body |-> IF worker.running THEN "logs" ELSE "not running",
       percent |-> JSUndefined,
       dim |-> ~worker.running]

\* worker.status?.status || 'unknown'
listStatus(worker) ==
  IF Truthy(StatusField(worker)) THEN StatusField(worker)
  ELSE JSScalar("string", "unknown")

\* workerStatus.padEnd(12) is a TypeError unless workerStatus is a string
listRowThrows(worker) == listStatus(worker).t # "string"

\* what listWorkers prints for a slot whose row throws, and for the slots
\* after it
RowTypeError == [statusText |-> "TypeError", workerStatus |-> JSUndefined,
                 branch |-> JSUndefined]
RowNotPrinted == [statusText |-> "-", workerStatus |-> JSUndefined,
                  branch |-> JSUndefined]

\* listWorkers: one row per worker, in slot order, until a row throws
listWorkers(workers) ==
  [i \in DOMAIN workers |->
     LET f2 == workers[i].status.fields.branch
     IN  IF \E j \in DOMAIN workers : j < i /\ listRowThrows(workers[j])
           THEN RowNotPrinted
         ELSE IF listRowThrows(workers[i]) THEN RowTypeError
         ELSE [statusText |->
                 IF workers[i].running THEN "running" ELSE "stopped",
               workerStatus |-> listStatus(workers[i]),
               branch |-> IF Truthy(f2) THEN f2 ELSE JSScalar("string", "-")]]


\* ------------------------------------------------------------------------
\* Configuration (config.ts) and theme selection (theme/index.ts)
\* ------------------------------------------------------------------------

\* JSON.stringify of a scalar
Quote(v) == CHOOSE tok \in StrToks : StrContent[tok] = v
ScalarTok(x) ==
  IF x.t = "string" THEN Quote(x.v)
  ELSE IF x.t = "null" THEN "null" ELSE x.v

\* one member of an object's text, nothing for a key the object lacks
MemberText(key, x) ==
  IF x.t = "undefined" THEN <<>> ELSE <<Quote(key), ":", ScalarTok(x)>>
Join(a, b) ==
  IF a = <<>> THEN b ELSE IF b = <<>> THEN a ELSE a \o <<",">> \o b

\* JSON.stringify: the members an object has, between braces (the keys are
\* written in a fixed order, which JSON.parse does not look at)
JSONstringify(v) ==
  IF v.t = "object"
    THEN <<"{">> \o
         Join(Join(MemberText("status", v.fields.status),
                   MemberText("branch", v.fields.branch)),
              Join(MemberText("percent", v.fields.percent),
                   MemberText("theme", v.fields.theme))) \o <<"}">>
  ELSE <<ScalarTok(v)>>

EmptyObject == JSValue("object", "-", NoFields)

\* readConfigFile: the parsed file, and {} when it is missing, unreadable or
\* not JSON
readConfigFile(text) ==
  IF text = Missing THEN EmptyObject
  ELSE IF text = Unreadable THEN EmptyObject
  ELSE LET v == JSONparse(text)
       IN  IF v = ParseError THEN EmptyObject ELSE v

\* the own properties an object spread copies: none from null, a number or
\* a boolean, and none of the keys modelled from a string
Spread(v) == IF v.t = "object" THEN v.fields ELSE NoFields

\* a merge in which a local file that exists replaces the global one whole
getMergedConfigWhole(cf, hasRoot) ==
  IF hasRoot /\ cf.local # Missing THEN Spread(readConfigFile(cf.local))
  ELSE Spread(readConfigFile(cf.global))

\* getMergedConfig: { ...global, ...local }, local read only when a project
\* root is given
getMergedConfig(cf, hasRoot) ==
  LET global == Spread(readConfigFile(cf.global))
      local == IF hasRoot THEN Spread(readConfigFile(cf.local)) ELSE NoFields
  IN  [k \in DOMAIN NoFields |->
         IF local[k].t # "undefined" THEN local[k] ELSE global[k]]

\* getConfigValue: config[key] of the merged config
getConfigValue(cf, key, hasRoot) == getMergedConfig(cf, hasRoot)[key]

THEME_VALUES == {"light", "dark", "auto"}

\* setConfigValue that writes the value before it looks at it
setConfigValueWritesFirst(cf, key, value, local, hasRoot, fs) ==
  LET which == IF local /\ hasRoot THEN "local" ELSE "global"
      conf == readConfigFile(cf[which])
      put == [conf EXCEPT !.fields.theme = JSScalar("string", value)]
      out == [cf EXCEPT ![which] = JSONstringify(put)]
  IN  IF conf.t # "object" THEN [thrown |-> "TypeError", cf |-> cf]
      ELSE IF fs # "ok" THEN [thrown |-> "Error", cf |-> cf]
      ELSE IF key = "theme" /\ value \in THEME_VALUES
        THEN [thrown |-> "-", cf |-> out]
      ELSE [thrown |-> "Error", cf |-> out]

\* setConfigValue: read the target file, check key and value (throwing on
\* an unknown key or an invalid theme), set config.theme (a TypeError when
\* the file holds a JSON value that is no object), write the file.  fs
\* names the filesystem call that fails: "ok" | "mkdir" | "write".
setConfigValue(cf, key, value, local, hasRoot, fs) ==
  LET which == IF local /\ hasRoot THEN "local" ELSE "global"
      conf == readConfigFile(cf[which])
      put == [conf EXCEPT !.fields.theme = JSScalar("string", value)]
  IN  IF key = "theme"
        THEN IF value \in THEME_VALUES
               THEN IF conf.t # "object"
                      THEN [thrown |-> "TypeError", cf |-> cf]
                    ELSE IF fs # "ok" THEN [thrown |-> "Error", cf |-> cf]
                    ELSE [thrown |-> "-",
                          cf |-> [cf EXCEPT ![which] = JSONstringify(put)]]
             ELSE [thrown |-> "Error", cf |-> cf]
      ELSE [thrown |-> "Error", cf |-> cf]

\* parseInt of a part of COLORFGBG; -1 stands for NaN
ParseInt == ("0" :> 0) @@ ("6" :> 6) @@ ("7" :> 7) @@ ("15" :> 15) @@
            ("default" :> -1)

\* detectTerminalTheme: the background colour of COLORFGBG (its second
\* part, or its last when there is no second), light from 7 up; else light
\* for Apple_Terminal; else dark.  colorfgbg is the variable split at ";",
\* <<>> when it is unset.
detectTerminalTheme(colorfgbg, termProgram) ==
  LET bg == IF colorfgbg = <<>> THEN -1
            ELSE IF Len(colorfgbg) >= 2 THEN ParseInt[colorfgbg[2]]
            ELSE ParseInt[colorfgbg[Len(colorfgbg)]]
  IN  IF bg # -1 THEN (IF bg >= 7 THEN "light" ELSE "dark")
      ELSE IF termProgram = "Apple_Terminal" THEN "light"
      ELSE "dark"

\* initTheme that looks at HIVECODE_THEME before the override
initThemeEnvFirst(cf, override, envTheme, colorfgbg, termProgram, hasRoot) ==
  LET theme == getMergedConfig(cf, hasRoot).theme
      mode == IF envTheme \in {"light", "dark"} THEN envTheme
              ELSE IF override # "-" THEN override
              ELSE IF theme.t = "string" /\ theme.v \in {"light", "dark"}
                THEN theme.v
              ELSE detectTerminalTheme(colorfgbg, termProgram)
  IN  IF mode = "light" THEN "light" ELSE "dark"

\* initTheme: the override when given, else HIVECODE_THEME when it is light
\* or dark, else the merged config's theme when it is light or dark, else
\* detection; the current theme is light for mode light, dark otherwise.
\* "-" stands for an override or a variable that is not given.
initTheme(cf, override, envTheme, colorfgbg, termProgram, hasRoot) ==
  LET theme == getMergedConfig(cf, hasRoot).theme
      mode == IF override # "-" THEN override
              ELSE IF envTheme \in {"light", "dark"} THEN envTheme
              ELSE IF theme.t = "string" /\ theme.v \in {"light", "dark"}
                THEN theme.v
              ELSE detectTerminalTheme(colorfgbg, termProgram)
  IN  IF mode = "light" THEN "light" ELSE "dark"

\* ------------------------------------------------------------------------
\* Log tailer (dashboard/hooks: useWorkerLogs)
\* ------------------------------------------------------------------------

MAX_LINES == 100

\* the lines a session writes, with their size in bytes, newline included
LineBytes == ("" :> 1) @@ ("a" :> 2) @@ ("bb" :> 3)
LogLines == DOMAIN LineBytes

\* stat.size
RECURSIVE FileSize(_)
FileSize(lines) ==
  IF lines = <<>> THEN 0 ELSE LineBytes[Head(lines)] + FileSize(Tail(lines))

\* content.split('\n').filter(line => line.trim() !== '')
NonBlank(lines) == SelectSeq(lines, LAMBDA l : l # "")

\* allLines.slice(-n)
LastLines(lines, n) ==
  IF Len(lines) <= n THEN lines
  ELSE SubSeq(lines, Len(lines) - n + 1, Len(lines))

\* the hook's state at mount: lastSizeRef.current = 0, setLines([])
NoTail == [lastSize |-> 0, lines |-> <<>>]

\* pollLog that keeps every line it read
pollLogUnbounded(t, log, ok) ==
  IF ~log.exists THEN t
  ELSE IF ~ok THEN t
  ELSE LET currentSize == FileSize(log.lines)
       IN  IF currentSize > t.lastSize
             THEN [lastSize |-> currentSize, lines |-> NonBlank(log.lines)]
             ELSE t

\* pollLog: nothing when the file is missing or stat/read throws (ok is
\* FALSE); the whole file is read again when it is larger than at the last
\* read, and only then
pollLog(t, log, ok) ==
  IF ~log.exists THEN t
  ELSE IF ~ok THEN t
  ELSE LET currentSize == FileSize(log.lines)
       IN  IF currentSize > t.lastSize
             THEN [lastSize |-> currentSize,
                   lines |-> LastLines(NonBlank(log.lines), MAX_LINES)]
             ELSE t

\* ------------------------------------------------------------------------
\* Modal key dispatcher (embedded/keybindings.ts)
\* ------------------------------------------------------------------------

Keys == {"C-\\", "w", "1", "2", "3", "4", "q", "t", "Escape", "x"}
DigitSlot == ("1" :> 1) @@ ("2" :> 2) @@ ("3" :> 3) @@ ("4" :> 4)

\* the host commands a binding can run
KeyCmds == {"set-option", "switch-client", "resize-pane", "if-shell",
            "run-shell"}

Cmd(name, arg) == [cmd |-> name, arg |-> arg]

\* the binding of C-\ in the root table
enterHiveMode ==
  <<Cmd("set-option", "hive"), Cmd("switch-client", "-T hive")>>

\* exitHiveMode with the table of the entry binding
exitHiveModeWrongTable ==
  <<Cmd("set-option", "normal"), Cmd("switch-client", "-T hive")>>

\* exitHiveMode: restore the normal status bar, switch to the root table
exitHiveMode ==
  <<Cmd("set-option", "normal"), Cmd("switch-client", "-T root")>>

\* the hive table built by setupKeybindings; any key without a binding of
\* its own is caught by the Any binding
hiveBinding(key) ==
  IF key = "w" THEN <<Cmd("resize-pane", "-Z")>> \o exitHiveMode
  ELSE IF key \in DOMAIN DigitSlot THEN <<Cmd("if-shell", key)>> \o exitHiveMode
  ELSE IF key = "q" THEN <<Cmd("switch-client", "-t embedded")>> \o exitHiveMode
  ELSE IF key = "t" THEN <<Cmd("run-shell", "theme toggle")>> \o exitHiveMode
  ELSE exitHiveMode

\* the dispatcher's state, passed through the commands of a binding
Dispatcher == [keyTable |-> keyTable, statusRight |-> statusRight,
               client |-> client, zoomed |-> embedded.zoomed,
               theme |-> embedded.theme, message |-> "-"]

\* the host commands with an if-shell that takes its first branch
\* whatever has-session answers
runCmdBlindSwitch(d, c, has) ==
  IF c.cmd = "set-option" THEN [d EXCEPT !.statusRight = c.arg]
  ELSE IF c.cmd = "switch-client" /\ c.arg = "-T hive"
    THEN [d EXCEPT !.keyTable = "hive"]
  ELSE IF c.cmd = "switch-client" /\ c.arg = "-T root"
    THEN [d EXCEPT !.keyTable = "root"]
  ELSE IF c.cmd = "switch-client" THEN [d EXCEPT !.client = 0]
  ELSE IF c.cmd = "resize-pane" THEN [d EXCEPT !.zoomed = ~d.zoomed]
  ELSE IF c.cmd = "if-shell" THEN [d EXCEPT !.client = DigitSlot[c.arg]]
  ELSE [d EXCEPT !.theme = IF d.theme = "dark" THEN "light" ELSE "dark"]

\* one host command; has tells which worker sessions the host has
runCmd(d, c, has) ==
  IF c.cmd = "set-option" THEN [d EXCEPT !.statusRight = c.arg]
  ELSE IF c.cmd = "switch-client" /\ c.arg = "-T hive"
    THEN [d EXCEPT !.keyTable = "hive"]
  ELSE IF c.cmd = "switch-client" /\ c.arg = "-T root"
    THEN [d EXCEPT !.keyTable = "root"]
  ELSE IF c.cmd = "switch-client" THEN [d EXCEPT !.client = 0]
  ELSE IF c.cmd = "resize-pane" THEN [d EXCEPT !.zoomed = ~d.zoomed]
  ELSE IF c.cmd = "if-shell"
    THEN IF has[DigitSlot[c.arg]]
           THEN [d EXCEPT !.client = DigitSlot[c.arg]]
           ELSE [d EXCEPT !.message = "not running"]
  ELSE [d EXCEPT !.theme = IF d.theme = "dark" THEN "light" ELSE "dark"]

\* a command sequence: left to right, and a command that fails ends it
RECURSIVE runSequence(_, _, _, _)
runSequence(d, cmds, F, has) ==
  IF cmds = <<>> THEN d
  ELSE IF Head(cmds).cmd \in F THEN d
  ELSE runSequence(runCmd(d, Head(cmds), has), Tail(cmds), F, has)

\* one key from the client.  A table selected with switch-client -T holds
\* for the next key only: the host puts the client back on the root table
\* before it runs that key's binding.
dispatchKey(d, key, F, has) ==
  IF d.keyTable = "root"
    THEN IF key = "C-\\" THEN runSequence(d, enterHiveMode, F, has) ELSE d
  ELSE runSequence([d EXCEPT !.keyTable = "root"], hiveBinding(key), F, has)


\* ------------------------------------------------------------------------
\* Inputs
\* ------------------------------------------------------------------------

\* which host command fails during one operation: none, or every call of
\* one of the commands the operation issues (an operation ends at the
\* first command that fails, and a failed existence query reads as "no
\* session")
Failing(cmds) == {{}} \cup {{c} : c \in cmds}
StartCmds == {"has-session", "new-session", "pipe-pane", "set-option",
              "send-keys"}
StopCmds == {"has-session", "send-keys"}
KillCmds == {"has-session", "kill-session"}

FsFailures == {"ok", "mkdir", "write"}

\* which slots' existence queries fail during one poll
PollFailures == {{}, Slots} \cup {{i} : i \in Slots}

\* the status documents a worker writes
DocCoding == <<"{", "\"status\"", ":", "\"coding\"", "}">>
DocIdle == <<"{", "\"status\"", ":", "\"idle\"", "}">>
Docs == {DocCoding, DocIdle}

InitWorld == [sess |-> [i \in Slots |-> NoSession], base |-> FALSE,
              wt |-> [i \in Slots |-> FALSE],
              logs |-> [i \in Slots |-> NoLog]]

\* the world after hivecode workers up has started every worker
UpSession == [exists |-> TRUE, cwd |-> "worktree", piped |-> TRUE,
              mouse |-> TRUE, agent |-> TRUE, exitSent |-> FALSE]
UpWorld == [sess |-> [i \in Slots |-> UpSession], base |-> TRUE,
            wt |-> [i \in Slots |-> TRUE],
            logs |-> [i \in Slots |-> EmptyLog]]

\* the record of an operation: what ran, on which slot, with which result,
\* from which world.  For restartWorker, alone is what startWorker alone
\* returns from the same world under the same inputs.
NoResult == [w |-> InitWorld, ret |-> "-", steps |-> <<>>]

\* how a command of the CLI ended: whether tmux was installed, the
\* exit code of the process, whether install instructions were printed,
\* and the lead width asked for
NoCli == [cmd |-> "-", hostMissing |-> FALSE, exit |-> 0,
          remedy |-> FALSE, width |-> 0, rets |-> <<>>, count |-> 0]

Op(op, slot, r, F, before, alone) ==
  [op |-> op, slot |-> slot, ret |-> r.ret, steps |-> r.steps,
   hostOk |-> (F = {}), failed |-> {}, before |-> before, alone |-> alone,
   cli |-> NoCli]

Env(op, slot, before) ==
  [op |-> op, slot |-> slot, ret |-> "-", steps |-> <<>>,
   hostOk |-> TRUE, failed |-> {}, before |-> before, alone |-> NoResult,
   cli |-> NoCli]

\* no config file, and no config or theme operation yet
NoConfig == [global |-> Missing, local |-> Missing]
NoConfOp == [op |-> "-", key |-> "-", value |-> "-", local |-> FALSE,
             override |-> "-", envTheme |-> "-", colorfgbg |-> <<>>,
             termProgram |-> "-", ret |-> JSUndefined]

\* the dashboard's timers: the status interval, the git interval and one
\* log interval per card
LogTimer == <<"log1", "log2", "log3", "log4">>
IntervalTimers == {"status", "git"} \cup {LogTimer[i] : i \in Slots}

\* the dashboard after render: every interval scheduled, no attach
\* timeout pending, no worker selected, attachWorker never called, the
\* git status read once
DashMounted == [mounted |-> TRUE, timers |-> IntervalTimers,
                pending |-> <<>>, attached |-> <<>>, selected |-> 0,
                git |-> "clean"]

\* ------------------------------------------------------------------------
\* Actions
\* ------------------------------------------------------------------------

SetWorld(w) ==
  /\ sess' = w.sess
  /\ baseExists' = w.base
  /\ worktree' = w.wt
  /\ logs' = w.logs

\* startWorker(slot), as called per slot by startAllWorkers and the layout
CallStartWorker(slot, F, gitOk, fs) ==
  LET r == startWorker(World, slot, F, gitOk, fs)
  IN  /\ SetWorld(r.w)
      /\ last' = Op("start", slot, r, F, World, NoResult)
      /\ ops' = ops + 1
      /\ UNCHANGED sideVars
      /\ UNCHANGED <<statusFile, snapshot, tail, call>>
      /\ UNCHANGED keyVars

\* stopWorker(slot)
CallStopWorker(slot, F) ==
  LET r == stopWorker(World, slot, F)
  IN  /\ SetWorld(r.w)
      /\ last' = Op("stop", slot, r, F, World, NoResult)
      /\ ops' = ops + 1
      /\ UNCHANGED sideVars
      /\ UNCHANGED <<statusFile, snapshot, tail, call>>
      /\ UNCHANGED keyVars

\* killWorker(slot)
CallKillWorker(slot, F) ==
  LET r == killWorker(World, slot, F)
  IN  /\ SetWorld(r.w)
      /\ last' = Op("kill", slot, r, F, World, NoResult)
      /\ ops' = ops + 1
      /\ UNCHANGED sideVars
      /\ UNCHANGED <<statusFile, snapshot, tail, call>>
      /\ UNCHANGED keyVars

\* hivecode workers restart N: restartWorker(workerId)
CallRestartWorker(workerId, F, gitOk, fs) ==
  LET r == restartWorker(World, workerId, F, gitOk, fs)
  IN  /\ SetWorld(r.w)
      /\ last' = Op("restart", workerId, r, F, World,
                    IF workerId \in Slots
                      THEN startWorker(World, workerId, F, gitOk, fs)
                      ELSE NoResult)
      /\ ops' = ops + 1
      /\ UNCHANGED sideVars
      /\ UNCHANGED <<statusFile, snapshot, tail, call>>
      /\ UNCHANGED keyVars

\* createWorktree(projectRoot, worktreeBase, slot) called on its own
CallCreateWorktree(slot, gitOk, fs) ==
  LET cw == createWorktree(World, slot, gitOk, fs)
      r == [ret |-> IF cw.thrown THEN "throw" ELSE cw.path,
            steps |-> cw.steps]
  IN  /\ SetWorld(cw.w)
      /\ last' = Op("ensure", slot, r, {}, World, NoResult)
      /\ ops' = ops + 1
      /\ UNCHANGED sideVars
      /\ UNCHANGED <<statusFile, snapshot, tail, call>>
      /\ UNCHANGED keyVars

\* hivecode clean
CallClean(out) ==
  LET r == clean(World, out)
  IN  /\ SetWorld(r.w)
      /\ last' = Op("clean", 0, r, {}, World, NoResult)
      /\ ops' = ops + 1
      /\ UNCHANGED sideVars
      /\ UNCHANGED <<statusFile, snapshot, tail, call>>
      /\ UNCHANGED keyVars

\* the step of createEmbeddedLayout that starts the workers, once the
\* embedded session has been created
LayoutStartsWorkers(requested, F, gitOk, fs) ==
  LET r == startWorkersLoop(World, 1, LayoutWorkerCount(requested), F,
                            gitOk, fs)
  IN  /\ SetWorld(r.w)
      /\ last' = Op("layout", LayoutWorkerCount(requested), r, F, World,
                    NoResult)
      /\ ops' = ops + 1
      /\ UNCHANGED sideVars
      /\ UNCHANGED <<statusFile, snapshot, tail, call>>
      /\ UNCHANGED keyVars

\* the dashboard's status timer: setWorkers(getWorkersInfo())
PollTick(Q) ==
  /\ "status" \in dash.timers
  /\ snapshot' = getWorkersInfo(World, statusFile, Q)
  /\ last' = [Env("poll", 0, World) EXCEPT !.hostOk = (Q = {}),
                                           !.failed = Q]
  /\ ops' = ops + 1
  /\ UNCHANGED sideVars
  /\ UNCHANGED <<lifeVars, statusFile, tail, call>>
  /\ UNCHANGED keyVars

\* the session ends outside the manager (killed by hand, shell exited)
ExternalKill(slot) ==
  /\ sess[slot].exists
  /\ sess' = [sess EXCEPT ![slot] = NoSession]
  /\ last' = Env("extkill", slot, World)
  /\ ops' = ops + 1
  /\ UNCHANGED sideVars
  /\ UNCHANGED <<baseExists, worktree, logs, statusFile, snapshot>>
  /\ UNCHANGED <<keyVars, tail, call>>

\* the session's output reaches the log through pipe-pane (cat >> log):
\* one more line at the end of the file, which cat creates when it is gone
WorkerOutput(slot, line) ==
  /\ sess[slot].exists /\ sess[slot].piped
  /\ logs' = [logs EXCEPT ![slot] = [exists |-> TRUE,
                                     lines |-> Append(@.lines, line)]]
  /\ last' = Env("output", slot, World)
  /\ ops' = ops + 1
  /\ UNCHANGED sideVars
  /\ UNCHANGED <<sess, baseExists, worktree, statusFile, snapshot>>
  /\ UNCHANGED <<keyVars, tail, call>>

\* the worker process writes its status document; a reader can see any
\* prefix of it (n tokens) while the write is under way
WorkerWrite(slot, doc, n) ==
  /\ sess[slot].exists /\ sess[slot].agent
  /\ statusFile[slot] # SubSeq(doc, 1, n)
  /\ statusFile' = [statusFile EXCEPT ![slot] = SubSeq(doc, 1, n)]
  /\ last' = Env("write", slot, World)
  /\ ops' = ops + 1
  /\ UNCHANGED sideVars
  /\ UNCHANGED <<lifeVars, snapshot, tail, call>>
  /\ UNCHANGED keyVars

\* the log timer of one worker's card: pollLog
TailPoll(slot, ok) ==
  /\ LogTimer[slot] \in dash.timers
  /\ tail' = [tail EXCEPT ![slot] = pollLog(@, logs[slot], ok)]
  /\ last' = [Env("tail", slot, World) EXCEPT !.hostOk = ok]
  /\ ops' = ops + 1
  /\ UNCHANGED sideVars
  /\ UNCHANGED <<lifeVars, statusFile, snapshot, call>>
  /\ UNCHANGED keyVars

\* the log file is removed outside the program (it lives in /tmp)
LogRemoved(slot) ==
  /\ logs[slot].exists
  /\ logs' = [logs EXCEPT ![slot] = NoLog]
  /\ last' = Env("logremoved", slot, World)
  /\ ops' = ops + 1
  /\ UNCHANGED sideVars
  /\ UNCHANGED <<sess, baseExists, worktree, statusFile, snapshot>>
  /\ UNCHANGED <<keyVars, tail, call>>

\* getWorkerSessionName applied to the two drawn pairs
CallGetWorkerSessionName ==
  /\ call.fn = "-"
  /\ call' = [call EXCEPT
                !.fn = "getWorkerSessionName",
                !.ra = getWorkerSessionName(call.a.projectName,
                                          call.a.workerId),
                !.rb = getWorkerSessionName(call.b.projectName,
                                          call.b.workerId)]
  /\ ops' = ops + 1
  /\ UNCHANGED sideVars
  /\ UNCHANGED <<lifeVars, statusFile, snapshot, last, tail>>
  /\ UNCHANGED keyVars

\* one key pressed on the client
KeyPress(key, F) ==
  LET d == dispatchKey(Dispatcher, key, F, [i \in Slots |-> sess[i].exists])
  IN  /\ keyTable' = d.keyTable
      /\ statusRight' = d.statusRight
      /\ client' = d.client
      /\ embedded' = [zoomed |-> d.zoomed, theme |-> d.theme]
      /\ lastKey' = [key |-> key, from |-> keyTable, message |-> d.message,
                      hostOk |-> (F = {})]
      /\ ops' = ops + 1
      /\ UNCHANGED sideVars
      /\ UNCHANGED <<lifeVars, statusFile, snapshot, last, tail, call>>

\* useGitStatus: the interval callback reads the git status again, while
\* its interval is scheduled
GitPoll(result) ==
  /\ "git" \in dash.timers
  /\ dash' = [dash EXCEPT !.git = result]
  /\ last' = Env("git", 0, World)
  /\ ops' = ops + 1
  /\ UNCHANGED <<lifeVars, statusFile, snapshot, tail, call>>
  /\ UNCHANGED <<keyVars, confVars, layout>>

\* exit(): Ink unmounts the components and every effect cleanup runs
\* clearInterval; nothing clears a timeout
Unmounted(d) == [d EXCEPT !.mounted = FALSE, !.timers = {}]

\* the id of the first running worker of the snapshot, 0 when none runs
FirstRunning ==
  IF \E i \in Slots : snapshot[i].running
    THEN CHOOSE i \in Slots :
           /\ snapshot[i].running
           /\ \A j \in 1..(i - 1) : ~snapshot[j].running
  ELSE 0

\* useInput of App: q (or Ctrl+C) exits, 1-4 and a select a worker and
\* set a 100 ms timeout that will exit and attach, any other key does
\* nothing
DashKey(input) ==
  LET id == IF input \in {"1", "2", "3", "4"} THEN DigitSlot[input]
            ELSE IF input = "a" THEN FirstRunning
            ELSE 0
  IN  /\ dash.mounted
      /\ dash' = IF input = "q" THEN Unmounted(dash)
                 ELSE IF id # 0
                   THEN [dash EXCEPT !.selected = id,
                                     !.pending = Append(@, id)]
                 ELSE dash
      /\ last' = Env("dashkey", id, World)
      /\ ops' = ops + 1
      /\ UNCHANGED <<lifeVars, statusFile, snapshot, tail, call>>
      /\ UNCHANGED <<keyVars, confVars, layout>>

\* the oldest attach timeout fires: exit(), then attachWorker(workerId)
\* on the next tick
AttachTimeout ==
  /\ dash.pending # <<>>
  /\ dash' = [Unmounted(dash) EXCEPT !.pending = Tail(@),
                                      !.attached = Append(@, Head(dash.pending))]
  /\ last' = Env("attach", Head(dash.pending), World)
  /\ ops' = ops + 1
  /\ UNCHANGED <<lifeVars, statusFile, snapshot, tail, call>>
  /\ UNCHANGED <<keyVars, confVars, layout>>

\* createEmbeddedLayout(options), called as the exported function it is
CallCreateEmbeddedLayout(options, env) ==
  LET r == createEmbeddedLayout(World, layout, options, env, ops + 1)
  IN  /\ SetWorld(r.w)
      /\ layout' = r.lay
      /\ last' = [Op("createEmbeddedLayout",
                     LayoutWorkerCount(options.workerCount), r,
                     env.FL \cup env.F, World, NoResult)
                    EXCEPT !.cli.width = options.queenWidthPercent,
                           !.failed = IF "has-session" \in env.F
                                        THEN Slots ELSE {}]
      /\ ops' = ops + 1
      /\ UNCHANGED <<statusFile, snapshot, tail, call>>
      /\ UNCHANGED <<keyVars, confVars, dash>>

\* how a command that ran to its end leaves the process: an uncaught
\* throw ends it with exit code 1
ExitOf(ret) == IF ret = "throw" THEN 1 ELSE 0

\* hivecode embedded --workers <count> --queen-width <percent>
\* [--no-panels] [--attach] [--theme <mode>], on a host where tmux is
\* installed or not
CmdEmbedded(args, hostMissing) ==
  LET workers == args.workers
      queenWidth == args.queenWidth
      attach == args.attach
      mode == initTheme(config,
                        IF args.theme = "auto" THEN "-" ELSE args.theme,
                        "-", <<>>, "-", TRUE)
      down == IF hostMissing THEN LayoutCmds ELSE {}
      r == createEmbeddedLayout(World, layout,
                                LayoutOptions(workers, queenWidth,
                                              args.panels),
                                HostEnv(down, {}, TRUE, "ok"), ops + 1)
      ended(ret, steps, exit, remedy) ==
        [Op("embedded", 0, [ret |-> ret, steps |-> steps], down, World,
            NoResult)
          EXCEPT !.cli = [cmd |-> "embedded", hostMissing |-> hostMissing,
                          exit |-> exit, remedy |-> remedy,
                          width |-> queenWidth]]
  IN  /\ currentTheme' = mode
      /\ IF attach /\ embeddedSessionExists(layout, down)
           THEN /\ last' = ended("attached", <<"has-session", "attach">>,
                                 0, FALSE)
                /\ UNCHANGED <<lifeVars, layout>>
         ELSE IF workers < 1 \/ workers > 4 \/ queenWidth < 40
                 \/ queenWidth > 80
           THEN /\ last' = ended("rejected", <<>>, 1, FALSE)
                /\ UNCHANGED <<lifeVars, layout>>
         ELSE IF hostMissing
           THEN /\ last' = ended("fatal", <<"which">>, 1, TRUE)
                /\ UNCHANGED <<lifeVars, layout>>
         ELSE /\ SetWorld(r.w)
              /\ layout' = r.lay
              /\ last' = ended(r.ret, <<"which">> \o r.steps
                                 \o (IF r.ret = "throw" THEN <<>>
                                     ELSE <<"has-session", "attach">>),
                               ExitOf(r.ret), FALSE)
      /\ ops' = ops + 1
      /\ UNCHANGED <<statusFile, snapshot, tail, call>>
      /\ UNCHANGED <<keyVars, config, confOp, dash>>

\* hivecode workers up, on a host where tmux is installed or not
CmdWorkersUp(hostMissing, F, gitOk) ==
  LET down == IF hostMissing THEN HostCmds ELSE F
      r == startAllWorkers(World, down, gitOk, "ok")
  IN  /\ SetWorld(r.w)
      /\ last' = [Op("workers up", 0, r, down, World, NoResult)
                    EXCEPT !.cli = [NoCli EXCEPT !.cmd = "workers up",
                                      !.hostMissing = hostMissing,
                                      !.exit = ExitOf(r.ret)]]
      /\ ops' = ops + 1
      /\ UNCHANGED sideVars
      /\ UNCHANGED <<statusFile, snapshot, tail, call>>
      /\ UNCHANGED keyVars

\* startAllWorkers(), called as the exported function it is
CallStartAllWorkers(F, gitOk, fs) ==
  LET r == startAllWorkers(World, F, gitOk, fs)
  IN  /\ SetWorld(r.w)
      /\ last' = [Op("startAllWorkers", 0, r, F, World, NoResult)
                    EXCEPT !.cli.rets = r.rets,
                           !.cli.count = r.started]
      /\ ops' = ops + 1
      /\ UNCHANGED sideVars
      /\ UNCHANGED <<statusFile, snapshot, tail, call>>
      /\ UNCHANGED keyVars

\* hivecode workers restart <n>, on a host where tmux is installed or not
CmdRestart(n, hostMissing, F, gitOk) ==
  LET down == IF hostMissing THEN HostCmds ELSE F
      r == IF n < 1 \/ n > 4
             THEN [w |-> World, ret |-> "rejected", steps |-> <<>>]
           ELSE restartWorker(World, n, down, gitOk, "ok")
  IN  /\ SetWorld(r.w)
      /\ last' = [Op("workers restart", n, r, down, World, NoResult)
                    EXCEPT !.cli = [NoCli EXCEPT !.cmd = "workers restart",
                                      !.hostMissing = hostMissing,
                                      !.exit = IF r.ret = "rejected" THEN 1
                                               ELSE ExitOf(r.ret)]]
      /\ ops' = ops + 1
      /\ UNCHANGED sideVars
      /\ UNCHANGED <<statusFile, snapshot, tail, call>>
      /\ UNCHANGED keyVars

\* the result of a config or theme operation as a value: what it returned,
\* or the error it threw
Outcome(thrown) ==
  IF thrown = "-" THEN JSUndefined ELSE JSScalar(thrown, "-")

\* hivecode config set <key> <value> [--local]
CallSetConfigValue(key, value, local, fs) ==
  LET r == setConfigValue(config, key, value, local, TRUE, fs)
  IN  /\ config' = r.cf
      /\ confOp' = [NoConfOp EXCEPT !.op = "set", !.key = key,
                                    !.value = value, !.local = local,
                                    !.ret = Outcome(r.thrown)]
      /\ ops' = ops + 1
      /\ UNCHANGED <<lifeVars, statusFile, snapshot, last, tail, call>>
      /\ UNCHANGED <<keyVars, currentTheme, dash, layout>>

\* hivecode config get <key>
CallGetConfigValue(key) ==
  /\ confOp' = [NoConfOp EXCEPT !.op = "get", !.key = key,
                                !.ret = getConfigValue(config, key, TRUE)]
  /\ ops' = ops + 1
  /\ UNCHANGED <<lifeVars, statusFile, snapshot, last, tail, call>>
  /\ UNCHANGED <<keyVars, config, currentTheme, dash, layout>>

\* the theme the toggle command starts from: getConfigValue('theme',
\* projectRoot) || 'dark'
ToggleFrom(cf) ==
  LET got == getConfigValue(cf, "theme", TRUE)
  IN  IF Truthy(got) THEN got ELSE JSScalar("string", "dark")

\* currentTheme === 'light' ? 'dark' : 'light'
ToggleTo(cf) ==
  IF ToggleFrom(cf) = JSScalar("string", "light") THEN "dark" ELSE "light"

\* hivecode theme toggle [--session <name>], also what the key t of the
\* embedded session runs: setConfigValue without the local option, then
\* initTheme with the new theme as the override; the host's styling that
\* follows is inside a try
CmdThemeToggle(fs) ==
  LET newTheme == ToggleTo(config)
      r == setConfigValue(config, "theme", newTheme, FALSE, TRUE, fs)
  IN  /\ config' = r.cf
      /\ currentTheme' = IF r.thrown # "-" THEN currentTheme
                         ELSE initTheme(r.cf, newTheme, "-", <<>>, "-", TRUE)
      /\ confOp' = [NoConfOp EXCEPT !.op = "toggle", !.key = "theme",
                                    !.value = newTheme,
                                    !.ret = Outcome(r.thrown)]
      /\ ops' = ops + 1
      /\ UNCHANGED <<lifeVars, statusFile, snapshot, last, tail, call>>
      /\ UNCHANGED <<keyVars, dash, layout>>

\* the theme step of hivecode dashboard and hivecode embedded: --theme auto
\* (the default) is no override
CallInitTheme(option, envTheme, colorfgbg, termProgram) ==
  LET override == IF option = "auto" THEN "-" ELSE option
      mode == initTheme(config, override, envTheme, colorfgbg, termProgram,
                        TRUE)
  IN  /\ currentTheme' = mode
      /\ confOp' = [NoConfOp EXCEPT !.op = "initTheme",
                                    !.override = override,
                                    !.envTheme = envTheme,
                                    !.colorfgbg = colorfgbg,
                                    !.termProgram = termProgram,
                                    !.ret = JSScalar("string", mode)]
      /\ ops' = ops + 1
      /\ UNCHANGED <<lifeVars, statusFile, snapshot, last, tail, call>>
      /\ UNCHANGED <<keyVars, config, dash, layout>>

\* the host redraws the status line of the embedded session every
\* status-interval (1 second); clock is the parity of the second it shows
StatusRedraw ==
  /\ layout.exists
  /\ layout' = [layout EXCEPT !.clock = 1 - @]
  /\ UNCHANGED <<lifeVars, statusFile, snapshot, last, ops, tail, call>>
  /\ UNCHANGED <<keyVars, confVars, dash>>

\* ------------------------------------------------------------------------
\* Specifications
\* ------------------------------------------------------------------------

NoFiles == [i \in Slots |-> Missing]

\* no pure function called yet
NameArg(p, i) == [projectName |-> p, workerId |-> i]
NoCall == [fn |-> "-", a |-> NameArg(<<>>, 0), b |-> NameArg(<<>>, 0),
           ra |-> <<>>, rb |-> <<>>]

\* the state after construction: the dashboard's first snapshot is taken
\* at mount (useState(() => getWorkersInfo())), and so is each card's first
\* read of its log
InitCore(w, files) ==
  /\ sess = w.sess
  /\ baseExists = w.base
  /\ worktree = w.wt
  /\ logs = w.logs
  /\ statusFile = files
  /\ snapshot = getWorkersInfo(w, files, {})
  /\ last = Env("none", 0, w)
  /\ ops = 0
  /\ keyTable = "root"
  /\ statusRight = "normal"
  /\ client = 0
  /\ embedded = [zoomed |-> FALSE, theme |-> "dark"]
  /\ lastKey = [key |-> "-", from |-> "root", message |-> "-",
                hostOk |-> TRUE]
  /\ tail = [i \in Slots |-> pollLog(NoTail, w.logs[i], TRUE)]

\* no config file written, the theme module as loaded (currentTheme =
\* darkTheme), the dashboard mounted with its intervals running, and no
\* embedded session
InitSide ==
  /\ config = NoConfig
  /\ currentTheme = "dark"
  /\ confOp = NoConfOp
  /\ dash = DashMounted
  /\ layout = NoLayout

InitBase(w, files) == InitCore(w, files) /\ InitSide

InitFrom(w, files) == InitBase(w, files) /\ call = NoCall

\* the lifecycle manager, from a fresh project
InitFresh == InitFrom(InitWorld, NoFiles)

\* the command line starts on a machine where no worker was ever started, or
\* on one where all four are up
Init == InitFresh \/ InitFrom(UpWorld, NoFiles)

\* the filesystem and git outcomes an operation on the slot can meet: mkdir
\* runs only while the base is missing, git only while the worktree is
GitOutcomes(slot) == IF worktree[slot] THEN {TRUE} ELSE BOOLEAN
FsOutcomes == IF baseExists THEN FsFailures \ {"mkdir"} ELSE FsFailures

Next ==
  /\ ops < MaxOps
  /\ \/ \E slot \in Slots, F \in Failing(StartCmds) :
          \E gitOk \in GitOutcomes(slot), fs \in FsOutcomes :
            CallStartWorker(slot, F, gitOk, fs)
     \/ \E slot \in Slots, F \in Failing(StopCmds) : CallStopWorker(slot, F)
     \/ \E slot \in Slots, F \in Failing(KillCmds) : CallKillWorker(slot, F)
     \/ \E slot \in Slots, F \in Failing(HostCmds) :
          \E gitOk \in GitOutcomes(slot), fs \in FsOutcomes :
            CallRestartWorker(slot, F, gitOk, fs)
     \/ \E id \in WorkerIds \ Slots : CallRestartWorker(id, {}, TRUE, "ok")
     \/ \E Q \in PollFailures : PollTick(Q)
     \/ \E slot \in Slots : ExternalKill(slot)
     \/ \E slot \in Slots : WorkerOutput(slot, "a")

Spec == Init /\ [][Next]_vars

\* how hivecode clean goes: git removes every worktree, or rm -rf has to,
\* or rm -rf fails at one slot
CleanOutcomes ==
  {[i \in Slots |-> "removed"], [i \in Slots |-> "forced"]} \cup
  {[i \in Slots |-> IF i = k THEN "failed" ELSE "forced"] : k \in Slots}

\* worker counts the layout is asked for
LayoutCounts == 0..(WORKER_COUNT + 1)

\* the worktree provisioner, clean and the operations that start workers
NextWorktree ==
  /\ ops < MaxTreeOps
  /\ \/ \E slot \in Slots :
          \E gitOk \in GitOutcomes(slot), fs \in FsOutcomes \ {"write"} :
            CallCreateWorktree(slot, gitOk, fs)
     \/ \E out \in CleanOutcomes : CallClean(out)
     \/ \E slot \in Slots, F \in Failing({"new-session"}) :
          \E gitOk \in GitOutcomes(slot) :
            CallStartWorker(slot, F, gitOk, "ok")
     \/ \E slot \in Slots : CallStopWorker(slot, {})
     \/ \E slot \in Slots : CallKillWorker(slot, {})
     \/ \E slot \in Slots :
          \E gitOk \in GitOutcomes(slot) :
            CallRestartWorker(slot, {}, gitOk, "ok")
     \/ PollTick({})
     \/ \E requested \in LayoutCounts, gitOk \in BOOLEAN :
          LayoutStartsWorkers(requested, {}, gitOk, "ok")

SpecWorktree == Init /\ [][NextWorktree]_vars

\* the dashboard beside running workers
InitStatus == InitFrom(UpWorld, NoFiles)

NextStatus ==
  /\ ops < MaxStatusOps
  /\ \/ \E slot \in Slots, doc \in Docs :
          \E n \in 0..Len(doc) : WorkerWrite(slot, doc, n)
     \/ \E Q \in {{}, Slots} : PollTick(Q)
     \/ \E slot \in Slots : ExternalKill(slot)
     \/ \E slot \in Slots : CallStartWorker(slot, {}, TRUE, "ok")

SpecStatus == InitStatus /\ [][NextStatus]_vars

\* the dashboard's poll among writes, kills and starts, for the age of
\* its snapshot
NextStale ==
  /\ ops < MaxStaleOps
  /\ \/ \E slot \in Slots, doc \in Docs :
          \E n \in 0..Len(doc) : WorkerWrite(slot, doc, n)
     \/ \E Q \in {{}, Slots} : PollTick(Q)
     \/ \E slot \in Slots : ExternalKill(slot)
     \/ \E slot \in Slots : CallStartWorker(slot, {}, TRUE, "ok")

SpecStale == InitStatus /\ [][NextStale]_vars

\* the embedded session's client
NextKeys ==
  /\ ops < MaxKeyOps
  /\ \/ \E key \in Keys, F \in SUBSET KeyCmds : KeyPress(key, F)
     \/ \E slot \in Slots : CallStartWorker(slot, {}, TRUE, "ok")
     \/ \E slot \in Slots : ExternalKill(slot)

SpecKeys == InitFresh /\ [][NextKeys]_vars

\* the client of a built layout, with time passing: the host keeps
\* redrawing the status line whether or not a key is pressed
InitKeysIdle ==
  /\ InitCore(UpWorld, NoFiles)
  /\ call = NoCall
  /\ config = NoConfig
  /\ currentTheme = "dark"
  /\ confOp = NoConfOp
  /\ dash = DashMounted
  /\ layout = BuiltLayout

NextKeysIdle ==
  \/ /\ ops < MaxIdleOps
     /\ \/ \E key \in Keys, F \in SUBSET KeyCmds : KeyPress(key, F)
        \/ \E slot \in Slots : ExternalKill(slot)
  \/ StatusRedraw

SpecKeysIdle ==
  InitKeysIdle /\ [][NextKeysIdle]_vars /\ WF_vars(StatusRedraw)

\* the config files: missing, cut short, holding null, an object without
\* a theme, with another key, or with a theme that is valid or not
DocTheme(v) == <<"{", "\"theme\"", ":", Quote(v), "}">>
DocBranch == <<"{", "\"branch\"", ":", "\"main\"", "}">>
DocBranchTheme(v) ==
  <<"{", "\"branch\"", ":", "\"main\"", ",", "\"theme\"", ":", Quote(v),
    "}">>
ConfigTexts ==
  {Missing, <<"{">>, <<"null">>, <<"{", "}">>, DocBranch,
   DocBranchTheme("dark")} \cup
  {DocTheme(v) : v \in THEME_VALUES \cup {"main"}}

\* what the command line is given
ConfigKeys == {"theme", "branch"}
ConfigValues == THEME_VALUES \cup {"main"}
ThemeOptions == {"auto", "light", "dark"}
EnvThemes == {"-", "light", "dark", "auto"}
ColorFgBgs == {<<>>, <<"15", "0">>, <<"0", "15">>, <<"0", "6">>, <<"7">>,
               <<"0", "default", "15">>}
TermPrograms == {"-", "Apple_Terminal"}

InitConfig ==
  \E global \in ConfigTexts, local \in ConfigTexts :
    /\ InitCore(InitWorld, NoFiles)
    /\ call = NoCall
    /\ config = [global |-> global, local |-> local]
    /\ currentTheme = "dark"
    /\ confOp = NoConfOp
    /\ dash = DashMounted
    /\ layout = NoLayout

\* the filesystem outcomes a write of the file can meet: mkdir runs only
\* while the file's directory is missing
ConfigFsOutcomes(local) ==
  IF config[IF local THEN "local" ELSE "global"] = Missing
    THEN FsFailures ELSE FsFailures \ {"mkdir"}

NextConfig ==
  /\ ops < MaxConfOps
  /\ \/ \E key \in ConfigKeys, value \in ConfigValues, local \in BOOLEAN :
          \E fs \in ConfigFsOutcomes(local) :
            CallSetConfigValue(key, value, local, fs)
     \/ \E key \in ConfigKeys : CallGetConfigValue(key)
     \/ \E fs \in ConfigFsOutcomes(FALSE) : CmdThemeToggle(fs)

SpecConfig == InitConfig /\ [][NextConfig]_vars

\* the layout composer and the commands that need tmux: a project with
\* or without an embedded session, on a host with or without tmux
LayoutWidths == {40, 60, 90}
LayoutRequests == {1, 5}
CliWorkers == {0, 2}
CliThemes == {"auto", "light"}

InitLayout ==
  \E lay \in {NoLayout, BuiltLayout} :
    /\ InitCore(InitWorld, NoFiles)
    /\ call = NoCall
    /\ config = NoConfig
    /\ currentTheme = "dark"
    /\ confOp = NoConfOp
    /\ dash = DashMounted
    /\ layout = lay

NextLayout ==
  /\ ops < MaxLayoutOps
  /\ \/ \E workerCount \in LayoutRequests, queenWidth \in LayoutWidths :
          \E showWorkers \in BOOLEAN, FL \in Failing(LayoutCmds) :
            \E fs \in {"ok", "write"} :
              CallCreateEmbeddedLayout(
                LayoutOptions(workerCount, queenWidth, showWorkers),
                HostEnv(FL, {}, TRUE, fs))
     \/ \E workers \in CliWorkers, queenWidth \in LayoutWidths :
          \E panels \in BOOLEAN, attach \in BOOLEAN, option \in CliThemes :
            \E hostMissing \in BOOLEAN :
              CmdEmbedded([workers |-> workers, queenWidth |-> queenWidth,
                           panels |-> panels, attach |-> attach,
                           theme |-> option], hostMissing)
     \/ \E hostMissing \in BOOLEAN, F \in Failing({"new-session"}) :
          CmdWorkersUp(hostMissing, F, TRUE)
     \/ \E n \in CliWorkers, hostMissing \in BOOLEAN :
          CmdRestart(n, hostMissing, {}, TRUE)

SpecLayout == InitLayout /\ [][NextLayout]_vars

\* every worker started at once, on a fresh machine or beside workers of
\* which some were killed, under any failing host command, git outcome
\* and filesystem failure
NextUp ==
  /\ ops < MaxUpOps
  /\ \/ \E F \in Failing(StartCmds), gitOk \in BOOLEAN :
          \E fs \in FsOutcomes : CallStartAllWorkers(F, gitOk, fs)
     \/ \E slot \in Slots : ExternalKill(slot)

SpecUp == Init /\ [][NextUp]_vars

\* the layout rebuilt beside running workers that write to their logs,
\* on a host that may fail the composer's existence queries for them
InitRebuild ==
  \E lay \in {NoLayout, BuiltLayout} :
    /\ InitCore(UpWorld, NoFiles)
    /\ call = NoCall
    /\ config = NoConfig
    /\ currentTheme = "dark"
    /\ confOp = NoConfOp
    /\ dash = DashMounted
    /\ layout = lay

NextRebuild ==
  /\ ops < MaxRebuildOps
  /\ \/ \E workerCount \in LayoutRequests, showWorkers \in BOOLEAN :
          \E FL \in Failing(LayoutCmds), F \in Failing({"has-session"}) :
            CallCreateEmbeddedLayout(
              LayoutOptions(workerCount, 60, showWorkers),
              HostEnv(FL, F, TRUE, "ok"))
     \/ \E slot \in Slots : WorkerOutput(slot, "a")
     \/ \E slot \in Slots : ExternalKill(slot)

SpecRebuild == InitRebuild /\ [][NextRebuild]_vars

\* the dashboard process from mount to exit, beside running workers
DashKeys == {"q", "1", "3", "a", "x"}
GitResults == {"clean", "dirty", "null"}

InitDash ==
  /\ InitCore(UpWorld, NoFiles)
  /\ call = NoCall
  /\ InitSide

NextDash ==
  /\ ops < MaxDashOps
  /\ \/ \E input \in DashKeys : DashKey(input)
     \/ AttachTimeout
     \/ PollTick({})
     \/ \E slot \in Slots : TailPoll(slot, TRUE)
     \/ \E result \in GitResults : GitPoll(result)
     \/ \E slot \in Slots : ExternalKill(slot)

SpecDash == InitDash /\ [][NextDash]_vars

\* theme selection alone: the two config files hold any of the texts that
\* matter to the theme, and a dashboard or embedded command starts under
\* any option and environment
ThemeTexts ==
  {Missing, <<"{">>, <<"{", "}">>} \cup
  {DocTheme(v) : v \in THEME_VALUES \cup {"main"}}

InitThemeWorld ==
  \E global \in ThemeTexts, local \in ThemeTexts :
    /\ InitCore(InitWorld, NoFiles)
    /\ call = NoCall
    /\ config = [global |-> global, local |-> local]
    /\ currentTheme = "dark"
    /\ confOp = NoConfOp
    /\ dash = DashMounted
    /\ layout = NoLayout

NextTheme ==
  /\ ops < MaxThemeOps
  /\ \E option \in ThemeOptions, envTheme \in EnvThemes :
       \E colorfgbg \in ColorFgBgs, termProgram \in TermPrograms :
         CallInitTheme(option, envTheme, colorfgbg, termProgram)

SpecTheme == InitThemeWorld /\ [][NextTheme]_vars

\* the status reader alone: one status file holds any text, and is polled
JsonToks == {"{", "}", ":", ",", "\"status\"", "\"coding\""}

RECURSIVE Texts(_)
Texts(n) ==
  IF n = 0 THEN {<<>>}
  ELSE LET shorter == Texts(n - 1)
       IN  shorter \cup
           {Append(t, tok) : t \in {u \in shorter : Len(u) = n - 1},
                             tok \in JsonToks}

FileContents == {Missing, Unreadable} \cup Texts(MaxTextLen)

InitRead ==
  \E i \in Slots, text \in FileContents :
    InitFrom(InitWorld, [j \in Slots |-> IF j = i THEN text ELSE Missing])

NextRead ==
  /\ ops < MaxReadPolls
  /\ \E Q \in {{}, Slots} : PollTick(Q)

SpecRead == InitRead /\ [][NextRead]_vars

\* the cards and the list over whole status documents: a status that is an
\* enum value, a string that is none, a number, a boolean, and percents
\* inside and outside 0..100
DocOdd == <<"{", "\"status\"", ":", "\"main\"", "}">>
DocNum == <<"{", "\"status\"", ":", "50", "}">>
DocTrue == <<"{", "\"status\"", ":", "true", "}">>
DocPercent(tok) == <<"{", "\"status\"", ":", "\"coding\"", ",",
                     "\"percent\"", ":", tok, "}">>
CardDocs == {DocCoding, DocOdd, DocNum, DocTrue} \cup
            {DocPercent(tok) : tok \in NumToks}

InitCards == InitFrom(UpWorld, NoFiles)

NextCards ==
  /\ ops < MaxCardOps
  /\ \/ \E slot \in Slots, doc \in CardDocs :
          WorkerWrite(slot, doc, Len(doc))
     \/ \E Q \in {{}, Slots} : PollTick(Q)
     \/ \E slot \in Slots : ExternalKill(slot)

SpecCards == InitCards /\ [][NextCards]_vars

\* the dashboard's log tailers beside workers that have written a line
LoggedWorld ==
  [UpWorld EXCEPT !.logs = [i \in Slots |->
                              [exists |-> TRUE, lines |-> <<"bb">>]]]

InitLogs == InitFrom(LoggedWorld, NoFiles)

NextLogs ==
  /\ ops < MaxLogOps
  /\ \/ \E slot \in Slots, line \in LogLines : WorkerOutput(slot, line)
     \/ \E slot \in Slots, ok \in BOOLEAN : TailPoll(slot, ok)
     \/ \E slot \in Slots : CallRestartWorker(slot, {}, TRUE, "ok")
     \/ \E slot \in Slots : LogRemoved(slot)

SpecLogs == InitLogs /\ [][NextLogs]_vars

\* the log tailers beside workers whose logs are one line short of the
\* window: the logs only grow
TailWorld ==
  [UpWorld EXCEPT !.logs = [i \in Slots |->
                              [exists |-> TRUE,
                               lines |-> [k \in 1..(MAX_LINES - 1) |-> "a"]]]]

InitTail == InitFrom(TailWorld, NoFiles)

NextTail ==
  /\ ops < MaxTailOps
  /\ \/ \E slot \in Slots, line \in LogLines : WorkerOutput(slot, line)
     \/ \E slot \in Slots, ok \in BOOLEAN : TailPoll(slot, ok)

SpecTail == InitTail /\ [][NextTail]_vars

\* the session names: two (project name, worker id) pairs are drawn, and
\* named.  Project names are short texts over a letter, the dash and a
\* digit, and such texts followed by "-worker-1", so that a project can be
\* called like another project's worker.
NameChars == {"a", "-", "1"}

RECURSIVE Names(_)
Names(n) ==
  IF n = 0 THEN {<<>>}
  ELSE LET shorter == Names(n - 1)
       IN  shorter \cup
           {Append(t, c) : t \in {u \in shorter : Len(u) = n - 1},
                           c \in NameChars}

ProjectNames ==
  Names(MaxNameLen) \cup
  {p \o WorkerSep \o <<"1">> : p \in Names(MaxNameLen - 1)}

NameIds == Slots \cup {11}

InitNames ==
  \E p1 \in ProjectNames, p2 \in ProjectNames :
    \E i1 \in NameIds, i2 \in NameIds :
      /\ InitBase(InitWorld, NoFiles)
      /\ call = [NoCall EXCEPT !.a = NameArg(p1, i1), !.b = NameArg(p2, i2)]

NextNames == CallGetWorkerSessionName

SpecNames == InitNames /\ [][NextNames]_vars


\* ------------------------------------------------------------------------
\* Claims
\* ------------------------------------------------------------------------

\* the steps of an operation that act on the host, the worktree or the log
EffectSteps(steps) == SelectSeq(steps, LAMBDA c : c \notin QueryCmds)

\* C1: when no host command fails, the slot's session exists after
\* startWorker(slot) returns and the result is true; on a slot whose session
\* already exists it returns true after the existence query alone: no step
\* of a start runs and the session, worktree and log are unchanged.
C1_StartThenExists ==
  (last.op = "start" /\ last.hostOk /\ last.ret # "throw") =>
    /\ sess[last.slot].exists
    /\ last.ret = "true"
    /\ last.before.sess[last.slot].exists =>
         /\ last.steps = <<"has-session">>
         /\ World = last.before

\* a second startWorker on a slot started before
C1_Witness ==
  /\ last.op = "start" /\ last.hostOk /\ last.ret = "true"
  /\ last.before.sess[last.slot].agent
  /\ sess[last.slot].exists

\* C2: when no host command fails, the slot's session does not exist after
\* killWorker(slot) returns; on a slot with no session it returns true
\* without a kill-session call.
C2_KillThenGone ==
  (last.op = "kill" /\ last.hostOk) =>
    /\ ~sess[last.slot].exists
    /\ last.ret = "true"
    /\ ~last.before.sess[last.slot].exists =>
         /\ last.steps = <<"has-session">>
         /\ World = last.before

\* a killWorker on a slot that was started and whose session is gone
C2_Witness ==
  /\ last.op = "kill" /\ last.hostOk /\ last.ret = "true"
  /\ ~last.before.sess[last.slot].exists
  /\ last.before.logs[last.slot].exists

\* C3: a key pressed in the hive table leaves the client on the root table,
\* whatever the key and whichever of its commands fail.
C3_HiveOneKey ==
  lastKey.from = "hive" => keyTable = "root"

\* an unmapped key pressed in the hive table
C3_Witness ==
  lastKey.from = "hive" /\ lastKey.key = "x" /\ keyTable = "root"

\* C4: restartWorker on a slot with no session issues no kill-session and
\* ends as startWorker alone does from the same world under the same
\* inputs: same sessions, worktrees and logs, same steps apart from the
\* existence query and the sleep, and it throws exactly when startWorker
\* throws.
C4_RestartAsStart ==
  (last.op = "restart" /\ last.slot \in Slots
     /\ ~last.before.sess[last.slot].exists) =>
    /\ \A i \in 1..Len(last.steps) : last.steps[i] # "kill-session"
    /\ World = last.alone.w
    /\ EffectSteps(last.steps) = EffectSteps(last.alone.steps)
    /\ (last.ret = "throw") = (last.alone.ret = "throw")

\* a restart of a slot with no session that started the worker
C4_Witness ==
  /\ last.op = "restart" /\ last.slot \in Slots
  /\ ~last.before.sess[last.slot].exists
  /\ sess[last.slot].agent

\* a text that is the beginning of a status document, cut short
Truncated(text) ==
  \E doc \in Docs : \E n \in 0..(Len(doc) - 1) : text = SubSeq(doc, 1, n)

\* a text whose braces do not pair up
Count(text, tok) == Cardinality({i \in 1..Len(text) : text[i] = tok})
Unbalanced(text) == Count(text, "{") # Count(text, "}")

\* C5: a poll reads undefined from a status file that is missing, unreadable,
\* cut short or unbalanced, and no file content makes the read fail.
C5_ReadNeverThrows ==
  last.op = "poll" =>
    \A i \in Slots :
      /\ snapshot[i].status # ParseError
      /\ (\/ statusFile[i] \in {Missing, Unreadable}
          \/ Truncated(statusFile[i])
          \/ Unbalanced(statusFile[i])) => snapshot[i].status = Undefined

\* a poll that read a status document cut short after its status key
C5_Witness ==
  /\ last.op = "poll"
  /\ \E i \in Slots :
       /\ statusFile[i] = SubSeq(DocCoding, 1, 3)
       /\ snapshot[i].status = Undefined


\* a text that is there and does not parse
Malformed(text) ==
  text \notin {Missing, Unreadable} /\ JSONparse(text) = ParseError

\* C6: a poll that reads a malformed status document keeps the status the
\* snapshot had for that slot.
C6_KeepsPreviousStatus ==
  [][(last'.op = "poll" /\ ops' = ops + 1) =>
       \A i \in Slots :
         Malformed(statusFile[i]) =>
           snapshot'[i].status = snapshot[i].status]_vars

\* C7: a poll yields one entry per slot 1..4 in slot order; when the host
\* answers the existence queries, running is the session's existence; status
\* is what the status store reads; a slot with no session and no status
\* file is running=false with no status.
C7_OneEntryPerSlot ==
  last.op = "poll" =>
    /\ DOMAIN snapshot = 1..4
    /\ \A i \in 1..4 :
         /\ snapshot[i].id = i
         /\ last.hostOk => snapshot[i].running = sess[i].exists
         /\ snapshot[i].status = readWorkerStatus(statusFile, i)
         /\ (~sess[i].exists /\ statusFile[i] = Missing) =>
              (~snapshot[i].running /\ snapshot[i].status = Undefined)

\* a poll that found one slot without session and status file beside a
\* running slot that reports coding
C7_Witness ==
  /\ last.op = "poll" /\ last.hostOk
  /\ \E i, j \in Slots :
       /\ ~sess[i].exists /\ statusFile[i] = Missing
       /\ ~snapshot[i].running /\ snapshot[i].status = Undefined
       /\ sess[j].exists /\ statusFile[j] = DocCoding
       /\ snapshot[j].running
       /\ snapshot[j].status.fields.status = JSScalar("string", "coding")

\* C8: a worker whose snapshot has running=false is presented, on its card
\* and in the list, as it would be without any status document.
C8_StoppedWinsOverStatus ==
  \A i \in DOMAIN snapshot :
    ~snapshot[i].running =>
      LET bare == [snapshot EXCEPT ![i].status = Undefined]
      IN  /\ WorkerCard(snapshot[i]) = WorkerCard(bare[i])
          /\ listWorkers(snapshot)[i] = listWorkers(bare)[i]

\* C9: startWorker returns true exactly when the slot's session exists at
\* return.
C9_ResultIsExistence ==
  (last.op = "start" /\ last.ret \in {"true", "false"}) =>
    ((last.ret = "true") = sess[last.slot].exists)

\* a step of startWorker after new-session failed
PostCreationFailure(o) ==
  /\ o.op = "start" /\ o.ret = "false"
  /\ \E i \in 1..Len(o.steps) : o.steps[i] = "pipe-pane"

\* C10: after a startWorker in which a step after new-session failed, the
\* session exists, and a poll that follows with the host answering reports
\* the slot running.
C10_SessionSurvivesFailure ==
  /\ [](PostCreationFailure(last) => sess[last.slot].exists)
  /\ [][(PostCreationFailure(last) /\ last'.op = "poll" /\ last'.hostOk) =>
          snapshot'[last.slot].running]_vars

\* a poll reporting as running a session left without output capture
C10_Witness ==
  /\ last.op = "poll"
  /\ \E i \in Slots :
       sess[i].exists /\ ~sess[i].piped /\ snapshot[i].running

\* C11: startWorker, stopWorker, killWorker and restartWorker never end by
\* throwing, whichever host command, git call or filesystem call fails.
C11_NeverThrows ==
  last.op \in {"start", "stop", "kill", "restart"} => last.ret # "throw"

\* C12: stopWorker on a slot with no session changes nothing and returns
\* false after the existence query alone; on a slot with a session it runs
\* one send-keys and nothing else (no kill-session, no sleep), the session
\* is the one that was there with /exit typed into it at most, and every
\* other session, the worktrees and the logs are unchanged.
C12_StopKeepsSession ==
  last.op = "stop" =>
    LET i == last.slot
        was == last.before.sess[i]
    IN  /\ sess[i].exists = was.exists
        /\ [World EXCEPT !.sess[i] = was] = last.before
        /\ \A k \in 1..Len(last.steps) :
             last.steps[k] \in {"has-session", "send-keys"}
        /\ ~was.exists =>
             /\ World = last.before
             /\ last.ret = "false"
             /\ last.steps = <<"has-session">>
        /\ was.exists =>
             sess[i] \in {was, [was EXCEPT !.exitSent = TRUE]}
        /\ (was.exists /\ last.hostOk) =>
             /\ last.steps = <<"has-session", "send-keys">>
             /\ last.ret = "true"
             /\ sess[i] = [was EXCEPT !.exitSent = TRUE]

\* a stopWorker that typed /exit into a running worker's session
C12_Witness ==
  /\ last.op = "stop" /\ last.hostOk /\ last.ret = "true"
  /\ last.before.sess[last.slot].agent
  /\ sess[last.slot].exists /\ sess[last.slot].exitSent

\* two createWorktree calls for the same slot, one right after the other
EnsureTwice ==
  /\ last.op = "ensure" /\ last'.op = "ensure"
  /\ last'.slot = last.slot /\ ops' = ops + 1

\* C13 as stated: the second of two createWorktree calls for a slot returns
\* what the first returned and runs no git worktree add.
C13_EnsureTwiceSame ==
  [][EnsureTwice =>
       /\ last'.ret = last.ret
       /\ \A k \in 1..Len(last'.steps) : last'.steps[k] # "worktree-add"]_vars

\* C13 amended: when the first call returned the worktree path, the second
\* returns the same path, runs neither mkdir nor git worktree add, and
\* changes nothing.
C13_EnsureTwiceSameOnceCreated ==
  [][(EnsureTwice /\ last.ret = "worktree") =>
       /\ last'.ret = "worktree"
       /\ last'.steps = <<>>
       /\ lifeVars' = lifeVars]_vars

\* the second createWorktree on a fresh project's slot, after the first
\* created the worktree
C13_Witness ==
  /\ ops = 2 /\ last.op = "ensure" /\ last.ret = "worktree"
  /\ last.steps = <<>>
  /\ last.before.wt[last.slot]
  /\ ~last.before.logs[last.slot].exists
  /\ ~last.before.sess[last.slot].exists

\* C14: when startWorker has to create the worktree and the worktree is not
\* there afterwards, createWorktree has returned (startWorker went on to
\* create the log), and unless a host command or the log creation fails the
\* session exists in the project root and the result is true.
C14_FallbackToRoot ==
  (last.op = "start" /\ Len(last.steps) > 1 /\ ~worktree[last.slot]) =>
    /\ \E k \in 1..Len(last.steps) : last.steps[k] = "log-reset"
    /\ (last.hostOk /\ last.ret # "throw") =>
         /\ sess[last.slot].exists
         /\ sess[last.slot].cwd = "root"
         /\ last.ret = "true"

\* C15: no operation but clean removes a worktree that exists, and
\* createWorktree, startWorker and restartWorker on a slot whose worktree
\* exists run no git worktree add and create the session in the worktree.
C15_WorktreeKept ==
  /\ [][\A i \in Slots :
          (worktree[i] /\ ~worktree'[i]) => last'.op = "clean"]_vars
  /\ []((last.op \in {"ensure", "start", "restart"} /\ last.slot \in Slots
           /\ last.before.wt[last.slot]) =>
          /\ worktree[last.slot]
          /\ \A k \in 1..Len(last.steps) : last.steps[k] # "worktree-add"
          /\ last.op = "ensure" => last.ret = "worktree"
          /\ \A k \in 1..Len(last.steps) :
               last.steps[k] = "pipe-pane" => sess[last.slot].cwd = "worktree")

\* a worker killed and started again in the worktree it had
C15_Witness ==
  /\ last.op = "start" /\ last.ret = "true"
  /\ last.before.wt[last.slot] /\ ~last.before.sess[last.slot].exists
  /\ worktree[last.slot] /\ sess[last.slot].cwd = "worktree"

\* C16: in every poll, a slot is reported running exactly when its
\* existence query did not fail and the host has the session at that
\* moment; a failed query reads as not running.
C16_ExistsFailsToFalse ==
  last.op = "poll" =>
    \A i \in Slots :
      snapshot[i].running = (i \notin last.failed /\ sess[i].exists)

\* a poll in which the query failed for a live session, and which found
\* gone a session that was there when the dashboard started
C16_Witness ==
  /\ last.op = "poll"
  /\ \E i \in last.failed : sess[i].exists /\ ~snapshot[i].running
  /\ \E j \in Slots \ last.failed :
       /\ ~sess[j].exists /\ ~snapshot[j].running
       /\ logs[j].exists
  /\ \E k \in Slots : snapshot[k].running

\* C17: two distinct (project name, worker id) pairs get distinct session
\* names.
C17_NamesCollisionFree ==
  call.fn = "getWorkerSessionName" =>
    (call.a # call.b => call.ra # call.rb)

\* worker 1 of a project called a-worker-1 beside worker 11 of project a
C17_Witness ==
  /\ call.fn = "getWorkerSessionName"
  /\ call.a = NameArg(<<"a">> \o WorkerSep \o <<"1">>, 1)
  /\ call.b = NameArg(<<"a">>, 11)
  /\ call.ra # call.rb

\* the six values of the status enum
StatusEnum == STATUS_ICONS \ {"unknown"}

\* a status field that is there and is not an enum value
Unrecognised(f) ==
  f.t # "undefined" /\ ~(f.t = "string" /\ f.v \in StatusEnum)

\* C18: a worker whose status field is an unrecognised string or a value
\* that is not a string gets the unknown icon on its card, and the list
\* prints its row and every other row without throwing.
C18_UnknownNeverCrashes ==
  \A i \in DOMAIN snapshot :
    Unrecognised(StatusField(snapshot[i])) =>
      /\ Truthy(StatusField(snapshot[i])) =>
           WorkerCard(snapshot[i]).icon = "unknown"
      /\ \A j \in DOMAIN snapshot :
           listWorkers(snapshot)[j].statusText \in {"running", "stopped"}

\* a percent as it is to be shown: inside 0..100
ClampTok(tok) ==
  IF NumValue[tok] > 100 THEN "100"
  ELSE IF NumValue[tok] < 0 THEN "0" ELSE tok

\* C19: the reader hands on the percent as written, and the card of a
\* worker whose document has a numeric percent shows it clamped into 0..100.
C19_PercentClamped ==
  \A i \in DOMAIN snapshot :
    LET pct == snapshot[i].status.fields.percent
    IN  /\ \A tok \in NumToks :
             (statusFile[i] = DocPercent(tok) /\ last.op = "poll") =>
               pct = JSScalar("number", tok)
        /\ pct.t = "number" =>
             WorkerCard(snapshot[i]).percent =
               JSScalar("number", ClampTok(pct.v))

\* C20: after a log poll that could read the file, the tailer's tracked
\* size is the file's size and its lines are the file's most recent lines,
\* also when the file was emptied or removed and written again since the
\* poll before.
C20_TailFollowsTruncation ==
  (last.op = "tail" /\ last.hostOk /\ logs[last.slot].exists) =>
    /\ tail[last.slot].lastSize = FileSize(logs[last.slot].lines)
    /\ tail[last.slot].lines =
         LastLines(NonBlank(logs[last.slot].lines), MAX_LINES)

\* the window over a text: its non-blank lines, the last MAX_LINES of them
IsWindowOf(shown, text) ==
  LET all == NonBlank(text)
      n == Len(all)
      k == Len(shown)
  IN  /\ k = (IF n < MAX_LINES THEN n ELSE MAX_LINES)
      /\ \A j \in 1..k : shown[j] = all[n - k + j]

\* C21: while the logs only grow, each tailer holds at most MAX_LINES lines,
\* they are the most recent lines of the log as it was at the tailer's last
\* read, and after a poll that could read the file they are the most recent
\* lines of the log as it is.
C21_TailWindowRecent ==
  \A i \in Slots :
    /\ Len(tail[i].lines) <= MAX_LINES
    /\ \E n \in 0..Len(logs[i].lines) :
         IsWindowOf(tail[i].lines, SubSeq(logs[i].lines, 1, n))
    /\ (last.op = "tail" /\ last.slot = i /\ last.hostOk) =>
         IsWindowOf(tail[i].lines, logs[i].lines)

\* a poll of a log that has outgrown the window: the oldest line is gone
\* and the newest is the last one held
C21_Witness ==
  /\ last.op = "tail" /\ last.hostOk
  /\ Len(NonBlank(logs[last.slot].lines)) > MAX_LINES
  /\ Len(tail[last.slot].lines) = MAX_LINES
  /\ tail[last.slot].lines[MAX_LINES] = "bb"
  /\ tail[last.slot].lines[1] = "a"

\* C22: once the client is on the hive table it gets back to the root table,
\* whether or not another key is pressed.
C22_HiveAutoExits == (keyTable = "hive") ~> (keyTable = "root")

\* what a config file holds for a key, undefined when the file is missing,
\* is no JSON object or lacks the key
Held(text, key) == Spread(readConfigFile(text))[key]

\* C23: a get of the theme right after a set of the theme in the local
\* config that succeeded returns the value set, whatever the global config
\* holds; and every get returns the local config's value for the key when
\* the local config has the key, and the global config's value when not.
C23_LocalWinsPerKey ==
  /\ [][(confOp.op = "set" /\ confOp.local /\ confOp.ret = JSUndefined
          /\ confOp'.op = "get" /\ confOp'.key = "theme"
          /\ ops' = ops + 1) =>
         confOp'.ret = JSScalar("string", confOp.value)]_vars
  /\ [](confOp.op = "get" =>
          confOp.ret = (IF Held(config.local, confOp.key) # JSUndefined
                          THEN Held(config.local, confOp.key)
                        ELSE Held(config.global, confOp.key)))

\* get theme answers light after set theme light --local, in a project with
\* another key in its local config and theme dark in the global config
C23_Witness ==
  /\ ops = 2 /\ confOp.op = "get" /\ confOp.key = "theme"
  /\ confOp.ret = JSScalar("string", "light")
  /\ config.global = DocTheme("dark")
  /\ config.local = DocBranchTheme("light")

\* C24: a set with an unknown key or an invalid theme value ends with an
\* error and leaves both config files as they were.
C24_InvalidSetWritesNothing ==
  [][(confOp'.op = "set" /\ ops' = ops + 1
      /\ (confOp'.key # "theme" \/ confOp'.value \notin THEME_VALUES)) =>
       /\ confOp'.ret = JSScalar("Error", "-")
       /\ config' = config]_vars

\* a set of an invalid theme value rejected after a set that wrote the
\* local file
C24_Witness ==
  /\ ops = 2 /\ confOp.op = "set" /\ confOp.key = "theme"
  /\ confOp.value = "main" /\ confOp.local
  /\ confOp.ret = JSScalar("Error", "-")
  /\ config.local = DocBranchTheme("auto")

\* a theme source names a mode when it holds light or dark
NamesMode(x) == x \in {"light", "dark"}
ThemeIn(text) ==
  LET v == Held(text, "theme")
  IN  IF v.t = "string" THEN v.v ELSE "-"

\* the mode chosen by strict priority over the five sources, a source that
\* is absent or auto passing the choice to the next one
StrictPriority ==
  IF NamesMode(confOp.override) THEN confOp.override
  ELSE IF NamesMode(confOp.envTheme) THEN confOp.envTheme
  ELSE IF NamesMode(ThemeIn(config.local)) THEN ThemeIn(config.local)
  ELSE IF NamesMode(ThemeIn(config.global)) THEN ThemeIn(config.global)
  ELSE detectTerminalTheme(confOp.colorfgbg, confOp.termProgram)

\* the mode chosen when the two config files count as one source, the
\* project's theme key standing for the global one wherever it is present
MergedPriority ==
  LET own == Held(config.local, "theme")
      merged == IF own # JSUndefined THEN own
                ELSE Held(config.global, "theme")
  IN  IF NamesMode(confOp.override) THEN confOp.override
      ELSE IF NamesMode(confOp.envTheme) THEN confOp.envTheme
      ELSE IF merged.t = "string" /\ NamesMode(merged.v) THEN merged.v
      ELSE detectTerminalTheme(confOp.colorfgbg, confOp.termProgram)

\* C28 (as stated): initTheme selects the mode by strict priority, CLI
\* override, HIVECODE_THEME, project config, global config, detection,
\* dark, a lower source being consulted only when every higher one is
\* absent or auto.  Stated over config files whose theme is absent, auto,
\* light or dark.
C28_StrictPriority ==
  (/\ confOp.op = "initTheme"
   /\ ThemeIn(config.local) \in THEME_VALUES \cup {"-"}
   /\ ThemeIn(config.global) \in THEME_VALUES \cup {"-"}) =>
    currentTheme = StrictPriority

\* C28 (amended): initTheme selects the mode by priority CLI override,
\* HIVECODE_THEME (light or dark), the merged config's theme (the project
\* config's theme key over the global one) when it is light or dark,
\* detection, dark; a project theme of auto selects detection whatever
\* the global config holds.
C28_MergedPriority ==
  confOp.op = "initTheme" => currentTheme = MergedPriority

\* project theme auto over global theme dark on a light terminal, no
\* override and no HIVECODE_THEME: detection chooses light
C28_Witness ==
  /\ confOp.op = "initTheme" /\ confOp.override = "-"
  /\ confOp.envTheme = "-"
  /\ config.local = DocTheme("auto") /\ config.global = DocTheme("dark")
  /\ confOp.colorfgbg = <<"0", "15">>
  /\ currentTheme = "light"

\* step a occurs in steps, ahead of the first occurrence of step b
OccursBeforeFirst(steps, a, b) ==
  \E i \in 1..Len(steps) :
    /\ steps[i] = a
    /\ \A j \in 1..i : steps[j] # b

\* C25: a createEmbeddedLayout call that returns leaves an embedded
\* session created by this very call; a session that existed before the
\* call was killed ahead of the new-session command; and a session older
\* than the call is left only by a call that threw without creating one.
C25_FreshSessionEachCall ==
  [][(last'.op = "createEmbeddedLayout" /\ ops' = ops + 1) =>
       /\ last'.ret = "name" =>
            layout'.exists /\ layout'.born = ops'
       /\ (layout.exists /\ layout'.exists /\ layout'.born = ops') =>
            OccursBeforeFirst(last'.steps, "kill-session", "new-session")
       /\ (layout'.exists /\ layout'.born # ops') =>
            last'.ret = "throw" /\ layout' = layout]_vars

\* a call that found the session of an earlier call, killed it and
\* returned with its own
C25_Witness ==
  /\ last.op = "createEmbeddedLayout" /\ last.ret = "name"
  /\ ops = 2 /\ layout.exists /\ layout.born = 2
  /\ OccursBeforeFirst(last.steps, "kill-session", "new-session")

\* C26: the percentage passed to the host's split is clamped: whenever
\* the embedded session has been split, the dashboard percentage lies in
\* 20..60, the lead width in 40..80.
C26_SplitClamped ==
  (layout.exists /\ layout.split # 0) =>
    (layout.split >= 20 /\ layout.split <= 60)

\* C29: with the tmux binary missing, workers up, workers restart and
\* the embedded layout end with exit code 1 and install instructions
\* right after the check for the binary, running no tmux command.
C29_MissingHostIsFatal ==
  (last.cli.hostMissing /\ last.ret # "rejected") =>
    /\ last.cli.exit = 1
    /\ last.cli.remedy
    /\ last.steps = <<"which">>

\* C27: once the dashboard has unmounted, no timer remains scheduled,
\* interval or timeout, and no status, log or git poll runs again.
C27_NoTimerAfterUnmount ==
  /\ [](~dash.mounted => (dash.timers = {} /\ dash.pending = <<>>))
  /\ [][(~dash.mounted /\ ops' = ops + 1) =>
         last'.op \notin {"poll", "tail", "git"}]_vars

\* the steps of a start in their order, after has-session and the
\* steps of the worktree provisioner
StartOrder == <<"log-reset", "new-session", "pipe-pane", "set-option",
                "send-keys">>
EnsureSteps == {<<>>, <<"mkdir-base">>, <<"worktree-add">>,
                <<"mkdir-base", "worktree-add">>}

\* C30: a startWorker on a slot with no session runs has-session, the
\* worktree steps, and then a prefix of log reset, new-session, pipe-pane,
\* set-option, send-keys, in this order; the session it leaves sits in the
\* path the provisioner returned, over an emptied log, and has its agent
\* launched only with its output capture attached.
C30_StartOrder ==
  (last.op = "start" /\ ~last.before.sess[last.slot].exists) =>
    /\ \E pre \in EnsureSteps, k \in 0..Len(StartOrder) :
         last.steps = <<"has-session">> \o pre \o SubSeq(StartOrder, 1, k)
    /\ sess[last.slot].exists =>
         /\ logs[last.slot] = EmptyLog
         /\ sess[last.slot].cwd =
              (IF worktree[last.slot] THEN "worktree" ELSE "root")
    /\ sess[last.slot].agent => sess[last.slot].piped

\* a start that went through every step, creating the worktree on the way
C30_Witness ==
  /\ last.op = "start" /\ ~last.before.sess[last.slot].exists
  /\ last.ret = "true"
  /\ last.steps = <<"has-session", "mkdir-base", "worktree-add">>
                   \o StartOrder
  /\ sess[last.slot].agent /\ sess[last.slot].piped

StepSet == {last.steps[k] : k \in 1..Len(last.steps)}

\* C32: a restartWorker on a slot that completes (and so reports the
\* worker restarted) has created the slot's session in this call and
\* launched the agent in it: the launch was run and took effect, which
\* needs the earlier session gone since new-session fails on a taken name.
C32_RestartRenews ==
  (last.op = "restart" /\ last.slot \in Slots /\ last.ret = "void") =>
    /\ "send-keys" \in StepSet
    /\ sess[last.slot].exists /\ sess[last.slot].agent

\* C33: a digit i pressed in the hive table, no command of its binding
\* failing, puts the client on worker i's session exactly when that session
\* exists at the press; when it does not, the client stays where it was and
\* the message says the worker is not running; either way the client is
\* back on the root table.
C33_DigitSwitchesIffRunning ==
  [][(lastKey' # lastKey /\ lastKey'.from = "hive" /\ lastKey'.hostOk
      /\ lastKey'.key \in DOMAIN DigitSlot) =>
       LET i == DigitSlot[lastKey'.key]
       IN  /\ sess[i].exists =>
                client' = i /\ lastKey'.message = "-"
           /\ ~sess[i].exists =>
                client' = client /\ lastKey'.message = "not running"
           /\ keyTable' = "root"]_vars

\* digit 1 pressed in the hive table while worker 1 runs and worker 2
\* does not: the client is on worker 1's session
C33_Witness ==
  /\ lastKey.from = "hive" /\ lastKey.key = "1" /\ lastKey.hostOk
  /\ lastKey.message = "-"
  /\ client = 1 /\ sess[1].exists /\ ~sess[2].exists
  /\ keyTable = "root"

\* the snapshot's entry for slot i tells the host's and the file's state
Accurate(i) ==
  /\ snapshot[i].running = sess[i].exists
  /\ snapshot[i].status = readWorkerStatus(statusFile, i)

\* a status poll in which the host fails an existence query
FailingPoll == last'.op = "poll" /\ ops' = ops + 1 /\ ~last'.hostOk

\* C34: after a status poll whose existence queries are answered, every
\* slot's snapshot entry equals the session's existence and the status
\* file's reading; and an entry that is equal stays equal through every
\* step that changes neither the slot's session existence nor its status
\* file, polls included, unless the host fails a poll's query.
C34_StalenessOnePoll ==
  [][\A i \in Slots :
       /\ (last'.op = "poll" /\ ops' = ops + 1 /\ last'.hostOk) =>
            Accurate(i)'
       /\ (/\ Accurate(i)
           /\ sess'[i].exists = sess[i].exists
           /\ statusFile'[i] = statusFile[i]
           /\ ~FailingPoll) => Accurate(i)']_vars

\* a second poll after a worker was killed and left its status document:
\* the entry says not running, with the document's status
C34_Witness ==
  /\ last.op = "poll" /\ last.hostOk /\ ops >= 3
  /\ \E i \in Slots :
       /\ ~sess[i].exists /\ ~snapshot[i].running
       /\ statusFile[i] = DocCoding
       /\ snapshot[i].status # Undefined
       /\ last.before.sess[i] = sess[i]

\* the lifecycle operations that take a slot
SlotOps == {"start", "stop", "kill", "restart"}

\* C35: startWorker, stopWorker, killWorker and restartWorker on slot i
\* leave every other slot's session (its existence, the agent command and
\* the /exit typed into it), log file and worktree as they were.
C35_SlotLocal ==
  [][(last'.op \in SlotOps /\ ops' = ops + 1 /\ last'.slot \in Slots) =>
       \A j \in Slots \ {last'.slot} :
         /\ sess'[j] = sess[j]
         /\ logs'[j] = logs[j]
         /\ worktree'[j] = worktree[j]]_vars

\* a kill that ended slot 1's session while the other three went on
C35_Witness ==
  /\ last.op = "kill" /\ last.slot = 1 /\ last.ret = "true"
  /\ last.before.sess[1].exists /\ ~sess[1].exists
  /\ \A j \in Slots \ {1} : sess[j].exists /\ worktree[j]

\* a is a prefix of b, the way the host resolves a target name
NamePrefix(a, b) == Len(a) <= Len(b) /\ SubSeq(b, 1, Len(a)) = a

\* no embedded session name is a worker session name, or the start of one
EmbeddedNameApart ==
  \A p \in ProjectNames, q \in ProjectNames, i \in Slots :
    ~NamePrefix(getEmbeddedSessionName(p), getWorkerSessionName(q, i))

C37_AttachAtMostOnce ==
  /\ Len(dash.attached) <= 1
  /\ (dash.attached # <<>> => ~dash.mounted)

\* the effective configured theme, dark when none is configured
Effective(cf) ==
  LET got == getConfigValue(cf, "theme", TRUE)
  IN  IF got.t = "undefined" THEN "dark"
      ELSE IF got.t = "string" THEN got.v ELSE "-"

Opposite(theme) == IF theme = "light" THEN "dark" ELSE "light"

\* C38: a theme toggle that completes, started from an effective theme of
\* light or dark (dark when unset), leaves the opposite theme effective.
C38_ToggleFlips ==
  [][(/\ confOp'.op = "toggle" /\ ops' = ops + 1
      /\ confOp'.ret = JSUndefined
      /\ Effective(config) \in {"light", "dark"}) =>
       Effective(config') = Opposite(Effective(config))]_vars

\* how many existence queries the last operation ran: startWorker begins
\* with one
Attempts ==
  Cardinality({k \in 1..Len(last.steps) : last.steps[k] = "has-session"})

\* C39: startAllWorkers attempts each of the four slots once, whatever
\* the earlier ones did, and reports as its count the number of
\* startWorker calls that returned true.
C39_EverySlotAttempted ==
  (last.op = "startAllWorkers") =>
    /\ Attempts = WORKER_COUNT
    /\ Len(last.cli.rets) = WORKER_COUNT
    /\ last.ret = "void"
    /\ last.cli.count = Started(last.cli.rets)

====
